---- MODULE Spec2Model ----
(***************************************************************************)
(* Roster, team membership and league participation of the organizer       *)
(* back end (apps/api/routers/organization.ts over the tables of           *)
(* db/schema), and the diff-based save of the two "manage" screens.        *)
(*                                                                         *)
(* Every router procedure is one action: the store statements of a         *)
(* handler run in the order of the code, and a statement that throws       *)
(* leaves the statements before it committed (no handler opens a           *)
(* transaction).                                                           *)
(***************************************************************************)
EXTENDS Integers, FiniteSets, Sequences, TLC

(***************************************************************************)
(* Universe.  Ids are uuids in the code; teams and leagues get fresh ids   *)
(* from counters, users and organizations are fixed.                       *)
(***************************************************************************)
Orgs == {"o1", "o2"}
Users == {"u1", "u2", "u3"}
\* the users the calls of the two-organization specifications name
CrossUsers == {"u1", "u2"}
\* the signed-in users that make the calls
Callers == {"u1", "u2"}
\* a user id / email that names no account
NoUser == "nobody"
UserInputs == Users \cup {NoUser}
MaxTeams == 2
MaxLeagues == 2
MaxInvitations == 1
MaxSaves == 2
MaxCalls == 4
SaveIds == 1..MaxSaves
MaxFacilities == 3
MaxSurfaces == 1
MaxInflight == 2
FacilityIds == 1..MaxFacilities
SurfaceIds == 1..MaxSurfaces
TeamIds == 1..MaxTeams
LeagueIds == 1..MaxLeagues
\* player_status values the calls are tried with (the default and one other)
Statuses == {"inactive", "active"}

VARIABLES
    member,              \* organization_member rows (staff)
    team,                \* team rows
    nextTeamId,          \* the next fresh team id
    teamMember,          \* team_member rows
    organizationPlayer,  \* organization_player rows (roster)
    league,              \* league rows
    nextLeagueId,        \* the next fresh league id
    leagueTeam,          \* league_team rows
    teamIdUnique,        \* whether the deployed team_member keeps UNIQUE(team_id)
    invitation,          \* invitation rows
    nextInvitationId,    \* the next fresh invitation id
    facility,            \* facility rows
    nextFacilityId,      \* the next fresh facility id
    facilitySurface,     \* facility_surface rows
    nextSurfaceId,       \* the next fresh surface id
    last,                \* the last call: procedure, result, exit taken, caller authorised
    calls,               \* the calls counted so far (in a session of limited length)
    page,                \* the "manage" screen that is open, if any
    initialIds,          \* the screen's initial...Ids state
    localIds,            \* the screen's local...Ids state
    saves,               \* the handleSave calls made on the screen
    nextSave,            \* the number of the next handleSave call
    requests,            \* the screen's mutation requests in flight
    latest,              \* per mutation hook, the request its observer follows
    schedule,            \* the operatingSchedule of the facility the page has loaded
    scheduleForm,        \* the facility page's scheduleForm state
    payload,             \* the operatingSchedule the page last sent
    groups,              \* the schedule groups the page shows
    inflight,            \* the calls that have passed their checks and await their insert
    mount                \* the open screen's query data, its prev...IdRef, its pending effect

tables == <<member, team, teamMember, organizationPlayer, league, leagueTeam,
            invitation, facility, facilitySurface>>
invitationVars == <<invitation, nextInvitationId>>
facilityVars == <<facility, nextFacilityId, facilitySurface, nextSurfaceId>>
storeVars == <<member, team, nextTeamId, teamMember, organizationPlayer, league,
               nextLeagueId, leagueTeam, teamIdUnique, invitationVars, facilityVars>>
clientVars == <<page, initialIds, localIds, saves, nextSave, requests, latest, mount>>
scheduleVars == <<schedule, scheduleForm, payload, groups>>
vars == <<storeVars, last, calls, clientVars, scheduleVars, inflight>>

(***************************************************************************)
(* Rows                                                                    *)
(***************************************************************************)
StaffRow(u, o, r) == [userId |-> u, organizationId |-> o, role |-> r]
TeamRow(t, o) == [id |-> t, organizationId |-> o]
TeamMemberRow(t, u, r) == [teamId |-> t, userId |-> u, role |-> r]
PlayerRow(o, u, s) == [organizationId |-> o, userId |-> u, status |-> s]
LeagueRow(l, o, slug) == [id |-> l, organizationId |-> o, slug |-> slug]
\* n tells apart the rows of one (league, team) pair (their ids, in the code)
LeagueTeamRow(l, t, n) == [leagueId |-> l, teamId |-> t, n |-> n]

InvitationRow(i, e, o, r) == [id |-> i, email |-> e, organizationId |-> o, role |-> r]
FacilityRow(f, o, name, slug) ==
    [id |-> f, organizationId |-> o, name |-> name, slug |-> slug]
SurfaceRow(x, f, name) == [id |-> x, facilityId |-> f, name |-> name]

\* organization_member.id: the row of (user, organization), unique per pair
MemberIds == Users \X Orgs

(***************************************************************************)
(* Store constraints                                                       *)
(***************************************************************************)
\* the table without UNIQUE(user_id)
M_TeamMemberInsertFails_NoUserUnique(rows, teams, t, u) ==
    \/ \E r \in rows : r.teamId = t /\ r.userId = u
    \/ teamIdUnique /\ \E r \in rows : r.teamId = t
    \/ u \notin Users
    \/ ~\E x \in teams : x.id = t

\* team_member: UNIQUE(user_id), UNIQUE(team_id, user_id), and UNIQUE(team_id)
\* where the deployment keeps it; the foreign keys to team and user.
\* rows, teams: the team_member and team tables the insert runs against.
TeamMemberInsertFails(rows, teams, t, u) ==
    \/ \E r \in rows : r.userId = u
    \/ \E r \in rows : r.teamId = t /\ r.userId = u
    \/ teamIdUnique /\ \E r \in rows : r.teamId = t
    \/ u \notin Users
    \/ ~\E x \in teams : x.id = t

\* organization_player: the foreign key to user
PlayerInsertFails(u) == u \notin Users

\* league_team: UNIQUE(league_id, team_id)
LeagueTeamInsertFails(l, t) ==
    \E r \in leagueTeam : r.leagueId = l /\ r.teamId = t

\* organization_member: UNIQUE(user_id, organization_id)
MemberInsertFails(u, o) ==
    \E m \in member : m.userId = u /\ m.organizationId = o

\* facility: UNIQUE(organization_id, slug)
FacilityInsertFails(o, slug) ==
    \E f \in facility : f.organizationId = o /\ f.slug = slug

\* the table without UNIQUE(organization_id)
M_LeagueInsertFails_SlugOnly(o, slug) ==
    \E r \in league : r.organizationId = o /\ r.slug = slug

\* league: UNIQUE(organization_id), UNIQUE(organization_id, slug)
LeagueInsertFails(o, slug) ==
    \/ \E r \in league : r.organizationId = o
    \/ \E r \in league : r.organizationId = o /\ r.slug = slug

(***************************************************************************)
(* The membership gate every handler starts with                           *)
(***************************************************************************)
IsStaff(c, o) == \E m \in member : m.userId = c /\ m.organizationId = o

Result(op, res, at, c, o) ==
    [op |-> op, res |-> res, at |-> at, auth |-> IsStaff(c, o)]

\* the signed-in user of the screens
Viewer == "u1"
ClosedPage == [kind |-> "closed", o |-> "none", id |-> 0]
\* no screen is mounted: prev...IdRef is null, and no query has data
NotMounted == [prev |-> 0, loaded |-> FALSE, todo |-> FALSE]
NoRequest == [save |-> 0, id |-> 0]
\* a save: its position, the two differences and the local ids of the render
\* it was called in; clean records whether, at the click, the server agreed
\* with the screen's initial ids and no earlier request was outstanding
UnusedSave ==
    [pc |-> "unused", toAdd |-> {}, toRemove |-> {}, local |-> {}, clean |-> FALSE]

\* the days of a schedule, in the order of the week
DAY_KEYS == <<"monday", "tuesday", "wednesday", "thursday", "friday", "saturday",
              "sunday">>
DAY_LABELS == <<"Mon", "Tue", "Wed", "Thu", "Fri", "Sat", "Sun">>
DayIndexes == 1..Len(DAY_KEYS)
\* a null or undefined schedule; a schedule object is a sequence of seven days
NullSchedule == <<>>
FormRow(s, e) == [startTime |-> s, endTime |-> e]
initialFormState == [d \in DayIndexes |-> FormRow(<<>>, <<>>)]
NotRendered == [shown |-> FALSE, list |-> <<>>]

\* no facility page open
InitNoSchedule ==
    /\ schedule = NullSchedule
    /\ scheduleForm = initialFormState
    /\ payload = NullSchedule
    /\ groups = NotRendered

\* no screen open
InitClosed ==
    /\ page = ClosedPage
    /\ mount = NotMounted
    /\ initialIds = {}
    /\ localIds = {}
    /\ saves = [k \in SaveIds |-> UnusedSave]
    /\ nextSave = 1
    /\ requests = {}
    /\ latest = [add |-> NoRequest, remove |-> NoRequest]

\* an empty store; the deployment's team_member either keeps UNIQUE(team_id)
\* or not
InitStore ==
    /\ team = {}
    /\ nextTeamId = 1
    /\ teamMember = {}
    /\ organizationPlayer = {}
    /\ league = {}
    /\ nextLeagueId = 1
    /\ leagueTeam = {}
    /\ teamIdUnique \in BOOLEAN
    /\ invitation = {}
    /\ nextInvitationId = 1
    /\ facility = {}
    /\ nextFacilityId = 1
    /\ facilitySurface = {}
    /\ nextSurfaceId = 1
    /\ InitClosed
    /\ InitNoSchedule
    /\ inflight = {}
    /\ calls = 0
    /\ last = [op |-> "none", res |-> "OK", at |-> "init", auth |-> TRUE]

\* one organization with a staff member, the other without
InitOne ==
    /\ member = {StaffRow("u1", "o1", "admin")}
    /\ InitStore

\* both organizations with a staff member of their own
InitTwo ==
    /\ member = {StaffRow("u1", "o1", "admin"), StaffRow("u2", "o2", "admin")}
    /\ InitStore

(***************************************************************************)
(* Handler exits                                                           *)
(***************************************************************************)
\* a throw before the first write: nothing but the result changes
Throw(op, res, at, c, o) ==
    /\ last' = Result(op, res, at, c, o)
    /\ UNCHANGED storeVars

(***************************************************************************)
(* Lookups the handlers make                                               *)
(***************************************************************************)
\* the team looked up by id alone
M_TeamInOrg_AnyOrg(t, o) == \E x \in team : x.id = t

\* select from team where id = t and organizationId = o
TeamInOrg(t, o) == \E x \in team : x.id = t /\ x.organizationId = o

\* select from league where id = l and organizationId = o
LeagueInOrg(l, o) == \E x \in league : x.id = l /\ x.organizationId = o

\* select from organization_player where organizationId = o and userId = u
OnRoster(o, u) ==
    \E p \in organizationPlayer : p.organizationId = o /\ p.userId = u

\* the "already on a team" check left out
M_AlreadyOnTeam_Skipped(u) == FALSE

\* teamMember.findFirst where userId = u  (any team, any organization)
AlreadyOnTeam(u) == \E r \in teamMember : r.userId = u

\* user.findFirst where email = e: the account of that email, if any
UserByEmail(e) == IF e \in Users THEN {e} ELSE {}

\* the teams of an organization
OrgTeamIds(o) == {x.id : x \in {y \in team : y.organizationId = o}}

(***************************************************************************)
(* createTeam                                                              *)
(***************************************************************************)
\* createTeam in a transaction: a failed insert leaves nothing behind
M_CreateTeam_Atomic(c, o, a) ==
    IF ~IsStaff(c, o) THEN Throw("createTeam", "FORBIDDEN", "gate", c, o)
    ELSE
      /\ nextTeamId <= MaxTeams
      /\ LET t == nextTeamId
             teams2 == team \cup {TeamRow(t, o)}
         IN IF PlayerInsertFails(a)
            THEN Throw("createTeam", "STORE_ERROR", "insert organization_player", c, o)
            ELSE IF TeamMemberInsertFails(teamMember, teams2, t, a)
            THEN Throw("createTeam", "STORE_ERROR", "insert team_member", c, o)
            ELSE /\ team' = teams2
                 /\ nextTeamId' = nextTeamId + 1
                 /\ organizationPlayer' =
                        IF OnRoster(o, a) THEN organizationPlayer
                        ELSE organizationPlayer \cup {PlayerRow(o, a, "inactive")}
                 /\ teamMember' = teamMember \cup {TeamMemberRow(t, a, "admin")}
                 /\ last' = Result("createTeam", "OK", "created", c, o)
                 /\ UNCHANGED <<member, league, nextLeagueId, leagueTeam, teamIdUnique,
                                invitationVars, facilityVars>>

CreateTeam(c, o, a) ==
    IF ~IsStaff(c, o) THEN Throw("createTeam", "FORBIDDEN", "gate", c, o)
    ELSE
      /\ nextTeamId <= MaxTeams
      /\ LET t == nextTeamId
             teams2 == team \cup {TeamRow(t, o)}
             roster2 == IF OnRoster(o, a) THEN organizationPlayer
                        ELSE organizationPlayer \cup {PlayerRow(o, a, "inactive")}
         IN /\ team' = teams2
            /\ nextTeamId' = nextTeamId + 1
            /\ UNCHANGED <<member, league, nextLeagueId, leagueTeam, teamIdUnique, invitationVars, facilityVars>>
            /\ IF PlayerInsertFails(a)
               THEN /\ UNCHANGED <<organizationPlayer, teamMember>>
                    /\ last' = Result("createTeam", "STORE_ERROR", "insert organization_player", c, o)
               ELSE /\ organizationPlayer' = roster2
                    /\ IF TeamMemberInsertFails(teamMember, teams2, t, a)
                       THEN /\ UNCHANGED teamMember
                            /\ last' = Result("createTeam", "STORE_ERROR", "insert team_member", c, o)
                       ELSE /\ teamMember' = teamMember \cup {TeamMemberRow(t, a, "admin")}
                            /\ last' = Result("createTeam", "OK", "created", c, o)

(***************************************************************************)
(* deleteTeam: the delete cascades to team_member and league_team          *)
(***************************************************************************)
DeleteTeam(c, o, t) ==
    IF ~IsStaff(c, o) THEN Throw("deleteTeam", "FORBIDDEN", "gate", c, o)
    ELSE IF ~TeamInOrg(t, o) THEN Throw("deleteTeam", "NOT_FOUND", "team", c, o)
    ELSE /\ team' = {x \in team : x.id # t}
         /\ teamMember' = {r \in teamMember : r.teamId # t}
         /\ leagueTeam' = {r \in leagueTeam : r.teamId # t}
         /\ last' = Result("deleteTeam", "OK", "deleted", c, o)
         /\ UNCHANGED <<member, nextTeamId, organizationPlayer, league,
                        nextLeagueId, teamIdUnique, invitationVars, facilityVars>>

(***************************************************************************)
(* addPlayerToTeam (by user id)                                            *)
(***************************************************************************)
AddPlayerToTeam(c, o, t, u) ==
    IF ~IsStaff(c, o) THEN Throw("addPlayerToTeam", "FORBIDDEN", "gate", c, o)
    ELSE IF ~TeamInOrg(t, o) THEN Throw("addPlayerToTeam", "NOT_FOUND", "team", c, o)
    ELSE IF ~OnRoster(o, u) THEN Throw("addPlayerToTeam", "NOT_FOUND", "roster", c, o)
    ELSE IF AlreadyOnTeam(u) THEN Throw("addPlayerToTeam", "CONFLICT", "alreadyOnTeam", c, o)
    ELSE IF TeamMemberInsertFails(teamMember, team, t, u)
         THEN Throw("addPlayerToTeam", "STORE_ERROR", "insert team_member", c, o)
    ELSE /\ teamMember' = teamMember \cup {TeamMemberRow(t, u, "member")}
         /\ last' = Result("addPlayerToTeam", "OK", "created", c, o)
         /\ UNCHANGED <<member, team, nextTeamId, organizationPlayer, league,
                        nextLeagueId, leagueTeam, teamIdUnique, invitationVars, facilityVars>>

(***************************************************************************)
(* addPlayer (by email): upserts the roster entry, then inserts the row    *)
(***************************************************************************)
UpsertPlayer(o, u, s) ==
    {p \in organizationPlayer : ~(p.organizationId = o /\ p.userId = u)}
        \cup {PlayerRow(o, u, s)}

AddPlayer(c, o, t, e, s) ==
    IF ~IsStaff(c, o) THEN Throw("addPlayer", "FORBIDDEN", "gate", c, o)
    ELSE IF ~TeamInOrg(t, o) THEN Throw("addPlayer", "NOT_FOUND", "team", c, o)
    ELSE IF UserByEmail(e) = {} THEN Throw("addPlayer", "NOT_FOUND", "user", c, o)
    ELSE LET u == CHOOSE x \in UserByEmail(e) : TRUE IN
      IF AlreadyOnTeam(u) THEN Throw("addPlayer", "CONFLICT", "alreadyInTeam", c, o)
      ELSE /\ organizationPlayer' = UpsertPlayer(o, u, s)
           /\ UNCHANGED <<member, team, nextTeamId, league, nextLeagueId,
                          leagueTeam, teamIdUnique, invitationVars, facilityVars>>
           /\ IF TeamMemberInsertFails(teamMember, team, t, u)
              THEN /\ UNCHANGED teamMember
                   /\ last' = Result("addPlayer", "STORE_ERROR", "insert team_member", c, o)
              ELSE /\ teamMember' = teamMember \cup {TeamMemberRow(t, u, "member")}
                   /\ last' = Result("addPlayer", "OK", "created", c, o)

(***************************************************************************)
(* removePlayerFromTeam, with the admin succession                         *)
(***************************************************************************)
\* teamMember.findFirst where teamId = t and userId = u
CurrentRows(t, u) == {r \in teamMember : r.teamId = t /\ r.userId = u}

\* select from team_member where teamId = t and userId <> u limit 1:
\* the rows the store may return (no ORDER BY)
NextAdminRows(t, u) == {r \in teamMember : r.teamId = t /\ r.userId # u}

\* no promotion
M_Promote_Nothing(rows, n) == rows

\* every row of the team promoted
M_Promote_WholeTeam(rows, n) ==
    {IF r.teamId = n.teamId THEN TeamMemberRow(r.teamId, r.userId, "admin") ELSE r
     : r \in rows}

\* every row of every team promoted
M_Promote_Everyone(rows, n) == {TeamMemberRow(r.teamId, r.userId, "admin") : r \in rows}

\* update team_member set role = 'admin' where id = n.id
Promote(rows, n) == (rows \ {n}) \cup {TeamMemberRow(n.teamId, n.userId, "admin")}

\* delete from team_member where teamId = t and userId = u
DeleteMember(rows, t, u) == {r \in rows : ~(r.teamId = t /\ r.userId = u)}

RemovePlayerFromTeam(c, o, t, u) ==
    IF ~IsStaff(c, o) THEN Throw("removePlayerFromTeam", "FORBIDDEN", "gate", c, o)
    ELSE IF CurrentRows(t, u) = {}
         THEN Throw("removePlayerFromTeam", "NOT_FOUND", "current", c, o)
    ELSE
      /\ UNCHANGED <<member, team, nextTeamId, organizationPlayer, league,
                     nextLeagueId, leagueTeam, teamIdUnique, invitationVars, facilityVars>>
      /\ \E current \in CurrentRows(t, u) :
           IF current.role = "admin"
           THEN IF NextAdminRows(t, u) # {}
                THEN \E n \in NextAdminRows(t, u) :
                       /\ teamMember' = DeleteMember(Promote(teamMember, n), t, u)
                       /\ last' = Result("removePlayerFromTeam", "OK", "promoted", c, o)
                ELSE /\ teamMember' = DeleteMember(teamMember, t, u)
                     /\ last' = Result("removePlayerFromTeam", "OK", "sole admin", c, o)
           ELSE /\ teamMember' = DeleteMember(teamMember, t, u)
                /\ last' = Result("removePlayerFromTeam", "OK", "member", c, o)

(***************************************************************************)
(* updatePlayer, removePlayer (roster entry by id)                         *)
(***************************************************************************)
\* select from organization_player where id = pid and organizationId = o
PlayerById(pid, o) ==
    {p \in organizationPlayer :
        /\ <<p.organizationId, p.userId>> = pid
        /\ p.organizationId = o}

UpdatePlayer(c, o, pid, s) ==
    IF ~IsStaff(c, o) THEN Throw("updatePlayer", "FORBIDDEN", "gate", c, o)
    ELSE IF PlayerById(pid, o) = {} THEN Throw("updatePlayer", "NOT_FOUND", "player", c, o)
    ELSE /\ organizationPlayer' =
              {IF <<p.organizationId, p.userId>> = pid
               THEN PlayerRow(p.organizationId, p.userId, s) ELSE p
               : p \in organizationPlayer}
         /\ last' = Result("updatePlayer", "OK", "updated", c, o)
         /\ UNCHANGED <<member, team, nextTeamId, teamMember, league,
                        nextLeagueId, leagueTeam, teamIdUnique, invitationVars, facilityVars>>

\* delete from team_member where userId = u, on whatever team
M_DeleteOrgMemberships_AnyTeam(rows, u, ids) == {r \in rows : r.userId # u}

\* delete from team_member where userId = u and teamId in (the org's teams)
DeleteOrgMemberships(rows, u, ids) ==
    {r \in rows : ~(r.userId = u /\ r.teamId \in ids)}

RemovePlayer(c, o, pid) ==
    IF ~IsStaff(c, o) THEN Throw("removePlayer", "FORBIDDEN", "gate", c, o)
    ELSE IF PlayerById(pid, o) = {} THEN Throw("removePlayer", "NOT_FOUND", "player", c, o)
    ELSE \E op \in PlayerById(pid, o) :
         /\ teamMember' = IF OrgTeamIds(o) # {}
                          THEN DeleteOrgMemberships(teamMember, op.userId, OrgTeamIds(o))
                          ELSE teamMember
         /\ organizationPlayer' =
              {p \in organizationPlayer : <<p.organizationId, p.userId>> # pid}
         /\ last' = Result("removePlayer", "OK", "removed", c, o)
         /\ UNCHANGED <<member, team, nextTeamId, league, nextLeagueId,
                        leagueTeam, teamIdUnique, invitationVars, facilityVars>>

(***************************************************************************)
(* Slugs.  Names and slugs are sequences of characters.                    *)
(***************************************************************************)
\* the characters of [a-z0-9] among those names and slugs are made of
Alnum == {"a", "b", "f", "l", "1"}

\* toLowerCase
Lower(str) == [i \in 1..Len(str) |-> IF str[i] = "B" THEN "b" ELSE str[i]]

\* trim
RECURSIVE Trim(_)
Trim(str) ==
    IF str = <<>> THEN str
    ELSE IF Head(str) = " " THEN Trim(Tail(str))
    ELSE IF str[Len(str)] = " " THEN Trim(SubSeq(str, 1, Len(str) - 1))
    ELSE str

\* replace(/[^a-z0-9]+/g, "-"): every run of other characters becomes one "-"
RECURSIVE Hyphenate(_)
Hyphenate(str) ==
    IF str = <<>> THEN str
    ELSE IF Head(str) \in Alnum THEN <<Head(str)>> \o Hyphenate(Tail(str))
    ELSE IF Len(str) > 1 /\ str[2] \notin Alnum THEN Hyphenate(Tail(str))
    ELSE <<"-">> \o Hyphenate(Tail(str))

\* replace(/^-|-$/g, ""): a leading "-" and a trailing "-" removed
StripEdges(str) ==
    LET a == IF str # <<>> /\ Head(str) = "-" THEN Tail(str) ELSE str
    IN IF a # <<>> /\ a[Len(a)] = "-" THEN SubSeq(a, 1, Len(a) - 1) ELSE a

Slugify(name) == StripEdges(Hyphenate(Lower(Trim(name))))

\* input.slug?.trim() || slugify(input.name) || fallback   (<<>> is falsy;
\* slugInput = <<>> also stands for an absent slug)
BaseSlug(slugInput, name, fallback) ==
    IF Trim(slugInput) # <<>> THEN Trim(slugInput)
    ELSE IF Slugify(name) # <<>> THEN Slugify(name)
    ELSE fallback

\* the decimal digits of a suffix (suffixes stay below 10 here)
Digits(k) == <<CHOOSE d \in {"1", "2", "3", "4", "5", "6", "7", "8", "9"} :
                 d = ToString(k)>>

\* `${baseSlug}-${suffix}`
Suffixed(base, k) == IF k = 0 THEN base ELSE base \o <<"-">> \o Digits(k)

\* a probe that skips a suffix after a collision
M_ProbeSlug_SkipOne(taken, base, k) ==
    IF Suffixed(base, k) \notin taken THEN Suffixed(base, k)
    ELSE Suffixed(base, k + 2)

\* the probe loop: the first of base, base-1, base-2, ... not in taken
RECURSIVE ProbeSlug(_, _, _)
ProbeSlug(taken, base, k) ==
    IF Suffixed(base, k) \notin taken THEN Suffixed(base, k)
    ELSE ProbeSlug(taken, base, k + 1)

(***************************************************************************)
(* Leagues and league participation                                        *)
(***************************************************************************)
\* createLeague: the slug probe reads only, the insert is the one write
LeagueFallback == <<"l">>

OrgLeagueSlugs(o) == {x.slug : x \in {y \in league : y.organizationId = o}}

\* slugify(input.name) || "league"
LeagueBaseSlug(name) ==
    IF Slugify(name) # <<>> THEN Slugify(name) ELSE LeagueFallback

CreateLeague(c, o, name) ==
    IF ~IsStaff(c, o) THEN Throw("createLeague", "FORBIDDEN", "gate", c, o)
    ELSE LET slug == ProbeSlug(OrgLeagueSlugs(o), LeagueBaseSlug(name), 0)
         IN IF LeagueInsertFails(o, slug)
            THEN Throw("createLeague", "STORE_ERROR", "insert league", c, o)
            ELSE /\ nextLeagueId <= MaxLeagues
                 /\ league' = league \cup {LeagueRow(nextLeagueId, o, slug)}
                 /\ nextLeagueId' = nextLeagueId + 1
                 /\ last' = Result("createLeague", "OK", "created", c, o)
                 /\ UNCHANGED <<member, team, nextTeamId, teamMember,
                                organizationPlayer, leagueTeam, teamIdUnique,
                                invitationVars, facilityVars>>

\* deleteLeague: the delete cascades to league_team
DeleteLeague(c, o, l) ==
    IF ~IsStaff(c, o) THEN Throw("deleteLeague", "FORBIDDEN", "gate", c, o)
    ELSE IF ~LeagueInOrg(l, o) THEN Throw("deleteLeague", "NOT_FOUND", "league", c, o)
    ELSE /\ league' = {x \in league : x.id # l}
         /\ leagueTeam' = {r \in leagueTeam : r.leagueId # l}
         /\ last' = Result("deleteLeague", "OK", "deleted", c, o)
         /\ UNCHANGED <<member, team, nextTeamId, teamMember, organizationPlayer,
                        nextLeagueId, teamIdUnique, invitationVars, facilityVars>>

\* the league_team rows of a (league, team) pair
PairRows(l, t) == {r \in leagueTeam : r.leagueId = l /\ r.teamId = t}

\* the "already in this league" check left out
M_AlreadyInThisLeague_Skipped(l, t) == FALSE

\* select from league_team where leagueId = l and teamId = t
AlreadyInThisLeague(l, t) == PairRows(l, t) # {}

AddTeamToLeague(c, o, l, t) ==
    IF ~IsStaff(c, o) THEN Throw("addTeamToLeague", "FORBIDDEN", "gate", c, o)
    ELSE IF ~LeagueInOrg(l, o) THEN Throw("addTeamToLeague", "NOT_FOUND", "league", c, o)
    ELSE IF ~TeamInOrg(t, o) THEN Throw("addTeamToLeague", "NOT_FOUND", "team", c, o)
    ELSE IF AlreadyInThisLeague(l, t)
         THEN Throw("addTeamToLeague", "CONFLICT", "alreadyInThisLeague", c, o)
    ELSE IF LeagueTeamInsertFails(l, t)
         THEN Throw("addTeamToLeague", "STORE_ERROR", "insert league_team", c, o)
    ELSE /\ leagueTeam' = leagueTeam \cup
              {LeagueTeamRow(l, t, 1 + Cardinality(PairRows(l, t)))}
         /\ last' = Result("addTeamToLeague", "OK", "created", c, o)
         /\ UNCHANGED <<member, team, nextTeamId, teamMember, organizationPlayer,
                        league, nextLeagueId, teamIdUnique, invitationVars, facilityVars>>

\* delete from league_team where leagueId = l and teamId = t returning id
RemoveTeamFromLeague(c, o, l, t) ==
    IF ~IsStaff(c, o) THEN Throw("removeTeamFromLeague", "FORBIDDEN", "gate", c, o)
    ELSE IF ~LeagueInOrg(l, o)
         THEN Throw("removeTeamFromLeague", "NOT_FOUND", "league", c, o)
    ELSE IF PairRows(l, t) = {}
         THEN Throw("removeTeamFromLeague", "NOT_FOUND", "not in league", c, o)
    ELSE /\ leagueTeam' = {r \in leagueTeam : ~(r.leagueId = l /\ r.teamId = t)}
         /\ last' = Result("removeTeamFromLeague", "OK", "removed", c, o)
         /\ UNCHANGED <<member, team, nextTeamId, teamMember, organizationPlayer,
                        league, nextLeagueId, teamIdUnique, invitationVars, facilityVars>>

\* getLeagueById(o, l).participatingTeams: league_team joined with team
ParticipatingTeams(l) ==
    {x.id : x \in {y \in team : \E r \in leagueTeam :
                                   r.leagueId = l /\ r.teamId = y.id}}

\* listTeamsAvailableForLeague(o, l): the org's teams left-joined with the
\* league's rows, kept where no row matched
TeamsAvailableForLeague(o, l) ==
    {x.id : x \in {y \in team :
        /\ y.organizationId = o
        /\ ~\E r \in leagueTeam : r.teamId = y.id /\ r.leagueId = l}}

(***************************************************************************)
(* Staff and invitations                                                   *)
(***************************************************************************)
\* select from organization_member where id = mid and organizationId = o
StaffById(mid, o) ==
    {m \in member : <<m.userId, m.organizationId>> = mid /\ m.organizationId = o}

\* addStaff: an account of that email becomes a member; otherwise an
\* invitation is stored and mailed (sent: whether the mail went out)
AddStaff(c, o, e, r) ==
    IF ~IsStaff(c, o) THEN Throw("addStaff", "FORBIDDEN", "gate", c, o)
    ELSE IF UserByEmail(e) # {}
    THEN LET u == CHOOSE x \in UserByEmail(e) : TRUE IN
         IF IsStaff(u, o) THEN Throw("addStaff", "CONFLICT", "existingMember", c, o)
         ELSE IF MemberInsertFails(u, o)
              THEN Throw("addStaff", "STORE_ERROR", "insert member", c, o)
         ELSE /\ member' = member \cup {StaffRow(u, o, r)}
              /\ last' = Result("addStaff", "OK", "member", c, o)
              /\ UNCHANGED <<team, nextTeamId, teamMember, organizationPlayer, league,
                             nextLeagueId, leagueTeam, teamIdUnique, invitationVars,
                             facilityVars>>
    ELSE /\ nextInvitationId <= MaxInvitations
         /\ invitation' = invitation \cup {InvitationRow(nextInvitationId, e, o, r)}
         /\ nextInvitationId' = nextInvitationId + 1
         /\ \E sent \in BOOLEAN :
              last' = IF sent THEN Result("addStaff", "OK", "invitation", c, o)
                      ELSE Result("addStaff", "INTERNAL_SERVER_ERROR", "send", c, o)
         /\ UNCHANGED <<member, team, nextTeamId, teamMember, organizationPlayer,
                        league, nextLeagueId, leagueTeam, teamIdUnique, facilityVars>>

\* invite: stores the invitation, then mails it (a failed send is not caught)
Invite(c, o, e, r) ==
    IF ~IsStaff(c, o) THEN Throw("invite", "FORBIDDEN", "gate", c, o)
    ELSE /\ nextInvitationId <= MaxInvitations
         /\ invitation' = invitation \cup {InvitationRow(nextInvitationId, e, o, r)}
         /\ nextInvitationId' = nextInvitationId + 1
         /\ \E sent \in BOOLEAN :
              last' = IF sent THEN Result("invite", "OK", "invitation", c, o)
                      ELSE Result("invite", "SEND_ERROR", "send", c, o)
         /\ UNCHANGED <<member, team, nextTeamId, teamMember, organizationPlayer,
                        league, nextLeagueId, leagueTeam, teamIdUnique, facilityVars>>

UpdateStaff(c, o, mid, r) ==
    IF ~IsStaff(c, o) THEN Throw("updateStaff", "FORBIDDEN", "gate", c, o)
    ELSE IF StaffById(mid, o) = {} THEN Throw("updateStaff", "NOT_FOUND", "target", c, o)
    ELSE /\ member' = {IF <<m.userId, m.organizationId>> = mid
                       THEN StaffRow(m.userId, m.organizationId, r) ELSE m
                       : m \in member}
         /\ last' = Result("updateStaff", "OK", "updated", c, o)
         /\ UNCHANGED <<team, nextTeamId, teamMember, organizationPlayer, league,
                        nextLeagueId, leagueTeam, teamIdUnique, invitationVars,
                        facilityVars>>

\* the handler without the check of the target against the caller
M_RemoveStaff_NoSelfCheck(c, o, mid) ==
    IF ~IsStaff(c, o) THEN Throw("removeStaff", "FORBIDDEN", "gate", c, o)
    ELSE IF StaffById(mid, o) = {} THEN Throw("removeStaff", "NOT_FOUND", "target", c, o)
    ELSE /\ member' = {m \in member : <<m.userId, m.organizationId>> # mid}
         /\ last' = Result("removeStaff", "OK", "removed", c, o)
         /\ UNCHANGED <<team, nextTeamId, teamMember, organizationPlayer, league,
                        nextLeagueId, leagueTeam, teamIdUnique, invitationVars,
                        facilityVars>>

RemoveStaff(c, o, mid) ==
    IF ~IsStaff(c, o) THEN Throw("removeStaff", "FORBIDDEN", "gate", c, o)
    ELSE IF StaffById(mid, o) = {} THEN Throw("removeStaff", "NOT_FOUND", "target", c, o)
    ELSE IF \E target \in StaffById(mid, o) : target.userId = c
         THEN Throw("removeStaff", "BAD_REQUEST", "self", c, o)
    ELSE /\ member' = {m \in member : <<m.userId, m.organizationId>> # mid}
         /\ last' = Result("removeStaff", "OK", "removed", c, o)
         /\ UNCHANGED <<team, nextTeamId, teamMember, organizationPlayer, league,
                        nextLeagueId, leagueTeam, teamIdUnique, invitationVars,
                        facilityVars>>

(***************************************************************************)
(* Facilities and surfaces                                                 *)
(***************************************************************************)
FacilityFallback == <<"f">>

OrgFacilitySlugs(o) == {f.slug : f \in {g \in facility : g.organizationId = o}}

\* select from facility where id = f and organizationId = o
FacilityInOrg(f, o) == \E g \in facility : g.id = f /\ g.organizationId = o

CreateFacility(c, o, name, slugInput) ==
    IF ~IsStaff(c, o) THEN Throw("createFacility", "FORBIDDEN", "gate", c, o)
    ELSE LET slug == ProbeSlug(OrgFacilitySlugs(o),
                               BaseSlug(slugInput, name, FacilityFallback), 0)
         IN IF FacilityInsertFails(o, slug)
            THEN Throw("createFacility", "STORE_ERROR", "insert facility", c, o)
            ELSE /\ nextFacilityId <= MaxFacilities
                 /\ facility' = facility \cup
                        {FacilityRow(nextFacilityId, o, Trim(name), slug)}
                 /\ nextFacilityId' = nextFacilityId + 1
                 /\ last' = Result("createFacility", "OK", "created", c, o)
                 /\ UNCHANGED <<member, team, nextTeamId, teamMember,
                                organizationPlayer, league, nextLeagueId, leagueTeam,
                                teamIdUnique, invitationVars, facilitySurface,
                                nextSurfaceId>>

UpdateFacility(c, o, f, name) ==
    IF ~IsStaff(c, o) THEN Throw("updateFacility", "FORBIDDEN", "gate", c, o)
    ELSE IF ~FacilityInOrg(f, o) THEN Throw("updateFacility", "NOT_FOUND", "facility", c, o)
    ELSE /\ facility' = {IF g.id = f /\ g.organizationId = o
                         THEN FacilityRow(g.id, g.organizationId, Trim(name), g.slug)
                         ELSE g : g \in facility}
         /\ last' = Result("updateFacility", "OK", "updated", c, o)
         /\ UNCHANGED <<member, team, nextTeamId, teamMember, organizationPlayer,
                        league, nextLeagueId, leagueTeam, teamIdUnique, invitationVars,
                        nextFacilityId, facilitySurface, nextSurfaceId>>

\* deleteFacility: the delete cascades to facility_surface
DeleteFacility(c, o, f) ==
    IF ~IsStaff(c, o) THEN Throw("deleteFacility", "FORBIDDEN", "gate", c, o)
    ELSE IF ~FacilityInOrg(f, o) THEN Throw("deleteFacility", "NOT_FOUND", "facility", c, o)
    ELSE /\ facility' = {g \in facility : g.id # f}
         /\ facilitySurface' = {x \in facilitySurface : x.facilityId # f}
         /\ last' = Result("deleteFacility", "OK", "deleted", c, o)
         /\ UNCHANGED <<member, team, nextTeamId, teamMember, organizationPlayer,
                        league, nextLeagueId, leagueTeam, teamIdUnique, invitationVars,
                        nextFacilityId, nextSurfaceId>>

\* select from facility_surface where id = x and facilityId = f
SurfaceOf(x, f) == \E y \in facilitySurface : y.id = x /\ y.facilityId = f

AddFacilitySurface(c, o, f, name) ==
    IF ~IsStaff(c, o) THEN Throw("addFacilitySurface", "FORBIDDEN", "gate", c, o)
    ELSE IF ~FacilityInOrg(f, o)
         THEN Throw("addFacilitySurface", "NOT_FOUND", "facility", c, o)
    ELSE /\ nextSurfaceId <= MaxSurfaces
         /\ facilitySurface' = facilitySurface \cup
                {SurfaceRow(nextSurfaceId, f, Trim(name))}
         /\ nextSurfaceId' = nextSurfaceId + 1
         /\ last' = Result("addFacilitySurface", "OK", "created", c, o)
         /\ UNCHANGED <<member, team, nextTeamId, teamMember, organizationPlayer,
                        league, nextLeagueId, leagueTeam, teamIdUnique, invitationVars,
                        facility, nextFacilityId>>

UpdateFacilitySurface(c, o, f, x, name) ==
    IF ~IsStaff(c, o) THEN Throw("updateFacilitySurface", "FORBIDDEN", "gate", c, o)
    ELSE IF ~FacilityInOrg(f, o)
         THEN Throw("updateFacilitySurface", "NOT_FOUND", "facility", c, o)
    ELSE IF ~SurfaceOf(x, f)
         THEN Throw("updateFacilitySurface", "NOT_FOUND", "surface", c, o)
    ELSE /\ facilitySurface' = {IF y.id = x /\ y.facilityId = f
                                THEN SurfaceRow(y.id, y.facilityId, Trim(name))
                                ELSE y : y \in facilitySurface}
         /\ last' = Result("updateFacilitySurface", "OK", "updated", c, o)
         /\ UNCHANGED <<member, team, nextTeamId, teamMember, organizationPlayer,
                        league, nextLeagueId, leagueTeam, teamIdUnique, invitationVars,
                        facility, nextFacilityId, nextSurfaceId>>

RemoveFacilitySurface(c, o, f, x) ==
    IF ~IsStaff(c, o) THEN Throw("removeFacilitySurface", "FORBIDDEN", "gate", c, o)
    ELSE IF ~FacilityInOrg(f, o)
         THEN Throw("removeFacilitySurface", "NOT_FOUND", "facility", c, o)
    ELSE IF ~SurfaceOf(x, f)
         THEN Throw("removeFacilitySurface", "NOT_FOUND", "surface", c, o)
    ELSE /\ facilitySurface' = {y \in facilitySurface : ~(y.id = x /\ y.facilityId = f)}
         /\ last' = Result("removeFacilitySurface", "OK", "removed", c, o)
         /\ UNCHANGED <<member, team, nextTeamId, teamMember, organizationPlayer,
                        league, nextLeagueId, leagueTeam, teamIdUnique, invitationVars,
                        facility, nextFacilityId, nextSurfaceId>>

(***************************************************************************)
(* Queries: the gate, a lookup of the entity they name, then reads only    *)
(***************************************************************************)
\* the lookup made before the gate
M_Query_LookupFirst(op, c, o, found) ==
    IF ~found THEN Throw(op, "NOT_FOUND", "entity", c, o)
    ELSE IF ~IsStaff(c, o) THEN Throw(op, "FORBIDDEN", "gate", c, o)
    ELSE Throw(op, "OK", "rows", c, o)

Query(op, c, o, found) ==
    IF ~IsStaff(c, o) THEN Throw(op, "FORBIDDEN", "gate", c, o)
    ELSE IF ~found THEN Throw(op, "NOT_FOUND", "entity", c, o)
    ELSE Throw(op, "OK", "rows", c, o)

GetTeamStats(c, o) == Query("getTeamStats", c, o, TRUE)
ListTeams(c, o) == Query("listTeams", c, o, TRUE)
GetTeamBySlug(c, o, t) == Query("getTeamBySlug", c, o, TeamInOrg(t, o))
GetLeagueStats(c, o) == Query("getLeagueStats", c, o, TRUE)
ListLeagues(c, o) == Query("listLeagues", c, o, TRUE)
GetLeagueById(c, o, l) == Query("getLeagueById", c, o, LeagueInOrg(l, o))
ListTeamsAvailableForLeague(c, o, l) ==
    Query("listTeamsAvailableForLeague", c, o, TRUE)
ListPlayersAvailableForTeam(c, o, t) ==
    Query("listPlayersAvailableForTeam", c, o, TeamInOrg(t, o))
GetPlayerStats(c, o) == Query("getPlayerStats", c, o, TRUE)

\* the rows of listPlayersAvailableForTeam: organization_player inner join
\* user, left join team_member on the user and this team, where no such
\* team_member row exists
PlayersAvailableForTeam(o, t) ==
    {p.userId : p \in {q \in organizationPlayer :
                         /\ q.organizationId = o
                         /\ q.userId \in Users
                         /\ ~\E m \in teamMember :
                              m.userId = q.userId /\ m.teamId = t}}

\* a row without a team
NoTeam == 0
\* organization_player left join team_member on the user id; member is the
\* team of the joined team_member row, NoTeam when there is none
JoinedMemberships(p) ==
    IF \E m \in teamMember : m.userId = p.userId
    THEN {m.teamId : m \in {x \in teamMember : x.userId = p.userId}}
    ELSE {NoTeam}

\* the join to team without the condition on its organization
M_ListPlayersRows_AnyOrgTeam(o) ==
    UNION {{[userId |-> p.userId, status |-> p.status, member |-> t,
             teamId |-> IF \E x \in team : x.id = t THEN t ELSE NoTeam]
            : t \in JoinedMemberships(p)}
           : p \in {q \in organizationPlayer :
                       q.organizationId = o /\ q.userId \in Users}}

\* the rows of listPlayers without filters: organization_player inner join
\* user, left join team_member, left join team on the team id and the
\* organization of the roster entry
ListPlayersRows(o) ==
    UNION {{[userId |-> p.userId, status |-> p.status, member |-> t,
             teamId |-> IF \E x \in team :
                              x.id = t /\ x.organizationId = p.organizationId
                        THEN t ELSE NoTeam]
            : t \in JoinedMemberships(p)}
           : p \in {q \in organizationPlayer :
                       q.organizationId = o /\ q.userId \in Users}}
ListPlayers(c, o) == Query("listPlayers", c, o, TRUE)
ListStaff(c, o) == Query("listStaff", c, o, TRUE)
ListFacilities(c, o) == Query("listFacilities", c, o, TRUE)
GetFacility(c, o, f) == Query("getFacility", c, o, FacilityInOrg(f, o))

(***************************************************************************)
(* The "manage" screens: leagues.$leagueId.teams and teams.$teamSlug.players *)
(*                                                                         *)
(* A request is sent, then replied to by its handler, then fulfilled or    *)
(* rejected at the screen; a settled request stays in requests, which is   *)
(* how the Promise.all of a batch knows what has been fulfilled.           *)
(***************************************************************************)
\* a call made by another session: the screen is not involved
Api(H) == H /\ UNCHANGED <<calls, clientVars, scheduleVars, inflight>>

\* a call of a session of at most MaxCalls calls
Counted(H) ==
    /\ calls < MaxCalls
    /\ H
    /\ calls' = calls + 1
    /\ UNCHANGED <<clientVars, scheduleVars, inflight>>

Request(k, kind, id, st, res) ==
    [save |-> k, kind |-> kind, id |-> id, st |-> st, res |-> res]

\* toAdd.map(id => add.mutateAsync(...)): one request per id, all sent at once
Batch(k, kind, ids) == {Request(k, kind, id, "sent", "none") : id \in ids}

\* mutation.isPending: the observer of a hook follows the last mutateAsync call
IsPending(kind) ==
    \E r \in requests :
        /\ r.kind = kind
        /\ r.save = latest[kind].save
        /\ r.id = latest[kind].id
        /\ r.st \in {"sent", "replied"}

IsSaving == IsPending("add") \/ IsPending("remove")

HasChanges ==
    \/ Cardinality(initialIds) # Cardinality(localIds)
    \/ \E id \in localIds : id \notin initialIds

\* the ids of a save's requests of one kind that are fulfilled
Fulfilled(reqs, k, kind) ==
    {r.id : r \in {q \in reqs : q.save = k /\ q.kind = kind /\ q.st = "fulfilled"}}

\* a batch resolves on the first fulfilled request
M_AllFulfilled_First(reqs, k, kind, ids) == Fulfilled(reqs, k, kind) # {}

\* Promise.all(batch) resolves: every request of the batch is fulfilled
AllFulfilled(reqs, k, kind, ids) == Fulfilled(reqs, k, kind) = ids

\* the end of the try block without setInitial...Ids
M_FinishSave_KeepInitial(k, sv, reqs) ==
    /\ requests' = reqs
    /\ saves' = [saves EXCEPT ![k] = [sv EXCEPT !.pc = "saved"]]
    /\ UNCHANGED <<initialIds, latest>>

\* setInitial...Ids(local...Ids) and the success toast: the end of the try block
FinishSave(k, sv, reqs) ==
    /\ requests' = reqs
    /\ saves' = [saves EXCEPT ![k] = [sv EXCEPT !.pc = "saved"]]
    /\ initialIds' = sv.local
    /\ UNCHANGED latest

\* await Promise.all(toRemove.map(...)): an empty batch resolves at once
IssueRemoves(k, sv, reqs) ==
    IF sv.toRemove = {} THEN FinishSave(k, sv, reqs)
    ELSE /\ requests' = reqs \cup Batch(k, "remove", sv.toRemove)
         /\ saves' = [saves EXCEPT ![k] = [sv EXCEPT !.pc = "removing"]]
         /\ \E id \in sv.toRemove :
                latest' = [latest EXCEPT !.remove = [save |-> k, id |-> id]]
         /\ UNCHANGED initialIds

\* await Promise.all(toAdd.map(...))
IssueAdds(k, sv, reqs) ==
    IF sv.toAdd = {} THEN IssueRemoves(k, sv, reqs)
    ELSE /\ requests' = reqs \cup Batch(k, "add", sv.toAdd)
         /\ saves' = [saves EXCEPT ![k] = [sv EXCEPT !.pc = "adding"]]
         /\ \E id \in sv.toAdd :
                latest' = [latest EXCEPT !.add = [save |-> k, id |-> id]]
         /\ UNCHANGED initialIds

\* the ids the server holds for the entity of the open screen: the league's
\* participating teams, the team's members
ServerIds ==
    IF page.kind = "leagueTeams" THEN ParticipatingTeams(page.id)
    ELSE {r.userId : r \in {q \in teamMember : q.teamId = page.id}}

\* no request is on its way to the server or back
Quiet == \A r \in requests : r.st \notin {"sent", "replied"}

\* handleSave, from the click to its first await
HandleSave ==
    /\ page.kind # "closed"
    /\ HasChanges
    /\ ~IsSaving
    /\ nextSave <= MaxSaves
    /\ LET sv == [pc |-> "unused",
                  toAdd |-> localIds \ initialIds,
                  toRemove |-> initialIds \ localIds,
                  local |-> localIds,
                  clean |-> (ServerIds = initialIds /\ Quiet)]
       IN IssueAdds(nextSave, sv, requests)
    /\ nextSave' = nextSave + 1
    /\ UNCHANGED <<page, mount, localIds, storeVars, last, calls, scheduleVars, inflight>>

\* handleSave of the league teams screen
HandleSaveTeams == page.kind = "leagueTeams" /\ HandleSave

\* handleSave of the team players screen
HandleSavePlayers == page.kind = "teamPlayers" /\ HandleSave

\* handleSave resumed after the settling of a request of the batch it awaits
ResumeSave(k, reqs, settled) ==
    IF settled.st = "rejected"
    THEN /\ requests' = reqs
         /\ saves' = [saves EXCEPT ![k].pc = "failed"]
         /\ UNCHANGED <<initialIds, latest>>
    ELSE IF saves[k].pc = "adding" /\ AllFulfilled(reqs, k, "add", saves[k].toAdd)
         THEN IssueRemoves(k, saves[k], reqs)
    ELSE IF saves[k].pc = "removing"
            /\ AllFulfilled(reqs, k, "remove", saves[k].toRemove)
         THEN FinishSave(k, saves[k], reqs)
    ELSE /\ requests' = reqs
         /\ UNCHANGED <<saves, initialIds, latest>>

\* whether handleSave k awaits the batch of request r
Awaits(k, r) ==
    \/ saves[k].pc = "adding" /\ r.kind = "add"
    \/ saves[k].pc = "removing" /\ r.kind = "remove"

\* a request settles at the screen
Settle(r, settled) ==
    /\ LET reqs == (requests \ {r}) \cup {settled}
       IN IF Awaits(r.save, r) THEN ResumeSave(r.save, reqs, settled)
          ELSE /\ requests' = reqs
               /\ UNCHANGED <<saves, initialIds, latest>>
    /\ UNCHANGED <<page, mount, localIds, nextSave, storeVars, last, calls, scheduleVars, inflight>>

\* the reply of the server arrives
Receive(r) ==
    /\ r \in requests
    /\ r.st = "replied"
    /\ Settle(r, [r EXCEPT !.st = IF r.res = "OK" THEN "fulfilled" ELSE "rejected"])

\* the request or its reply is lost
NetworkError(r) ==
    /\ r \in requests
    /\ r.st \in {"sent", "replied"}
    /\ Settle(r, [r EXCEPT !.st = "rejected", !.res = "NETWORK"])

\* the procedure a request of the open screen calls
Handle(r) ==
    IF page.kind = "leagueTeams"
    THEN IF r.kind = "add" THEN AddTeamToLeague(Viewer, page.o, page.id, r.id)
         ELSE RemoveTeamFromLeague(Viewer, page.o, page.id, r.id)
    ELSE IF r.kind = "add" THEN AddPlayerToTeam(Viewer, page.o, page.id, r.id)
         ELSE RemovePlayerFromTeam(Viewer, page.o, page.id, r.id)

\* the server handles a request
Serve(r) ==
    /\ r \in requests
    /\ r.st = "sent"
    /\ Handle(r)
    /\ requests' = (requests \ {r}) \cup {[r EXCEPT !.st = "replied", !.res = last'.res]}
    /\ UNCHANGED <<page, mount, initialIds, localIds, saves, nextSave, latest, calls, scheduleVars, inflight>>

\* the ids the open screen lists: those of the entity and the available ones
Listed ==
    IF page.kind = "leagueTeams"
    THEN ParticipatingTeams(page.id) \cup TeamsAvailableForLeague(page.o, page.id)
    ELSE {r.userId : r \in {q \in teamMember : q.teamId = page.id}}
         \cup {p.userId : p \in {q \in organizationPlayer :
                                   /\ q.organizationId = page.o
                                   /\ ~\E m \in teamMember :
                                        m.teamId = page.id /\ m.userId = q.userId}}

\* handleAddTeam / handleAddPlayer
HandleAdd(id) ==
    /\ page.kind # "closed"
    /\ id \in Listed
    /\ id \notin localIds
    /\ localIds' = localIds \cup {id}
    /\ UNCHANGED <<page, mount, initialIds, saves, nextSave, requests, latest, storeVars, last, calls, scheduleVars, inflight>>

\* handleRemoveTeam / handleRemovePlayer
HandleRemove(id) ==
    /\ page.kind # "closed"
    /\ id \in Listed
    /\ id \in localIds
    /\ localIds' = localIds \ {id}
    /\ UNCHANGED <<page, mount, initialIds, saves, nextSave, requests, latest, storeVars, last, calls, scheduleVars, inflight>>

\* a store as createTeam (admin u2), createTeam (admin u2 again: the team
\* stays, without its admin row), addPlayer (u3 to team 2), removePlayerFromTeam
\* (u3) and createLeague leave it: u2 is the admin of team 1, team 2 is empty,
\* u3 is a free agent, the league has no teams
InitSaveStore ==
    /\ member = {StaffRow("u1", "o1", "admin")}
    /\ team = {TeamRow(1, "o1"), TeamRow(2, "o1")}
    /\ nextTeamId = 3
    /\ teamMember = {TeamMemberRow(1, "u2", "admin")}
    /\ organizationPlayer = {PlayerRow("o1", "u2", "inactive"),
                             PlayerRow("o1", "u3", "active")}
    /\ league = {LeagueRow(1, "o1", <<"a">>)}
    /\ nextLeagueId = 2
    /\ leagueTeam = {}
    /\ teamIdUnique \in BOOLEAN
    /\ invitation = {}
    /\ nextInvitationId = 1
    /\ facility = {}
    /\ nextFacilityId = 1
    /\ facilitySurface = {}
    /\ nextSurfaceId = 1
    /\ last = [op |-> "createLeague", res |-> "OK", at |-> "created", auth |-> TRUE]
    /\ calls = 0

\* the sync effect on the first render with data: initial and local ids are
\* the ids of the entity
InitSave ==
    /\ InitSaveStore
    /\ InitNoSchedule
    /\ inflight = {}
    /\ \/ /\ page = [kind |-> "leagueTeams", o |-> "o1", id |-> 1]
          /\ initialIds = ParticipatingTeams(1)
       \/ /\ page = [kind |-> "teamPlayers", o |-> "o1", id |-> 1]
          /\ initialIds = {r.userId : r \in {q \in teamMember : q.teamId = 1}}
    /\ localIds = initialIds
    /\ mount = [prev |-> 1, loaded |-> TRUE, todo |-> FALSE]
    /\ saves = [k \in SaveIds |-> UnusedSave]
    /\ nextSave = 1
    /\ requests = {}
    /\ latest = [add |-> NoRequest, remove |-> NoRequest]

(***************************************************************************)
(* Operating schedules: the facility page shows the schedule of the        *)
(* facility in groups and edits it in a form of seven rows.  A time is a   *)
(* sequence of characters.                                                 *)
(***************************************************************************)

\* a startTime or endTime that is null or undefined
NullTime == <<"null">>
\* schedule[day]: undefined, null, or an object with a startTime and an endTime
Absent == [kind |-> "absent", startTime |-> NullTime, endTime |-> NullTime]
NullDay == [kind |-> "null", startTime |-> NullTime, endTime |-> NullTime]
Hours(s, e) == [kind |-> "hours", startTime |-> s, endTime |-> e]

\* hours && typeof hours === "object" && startTime != null && endTime != null
HasHours(hours) ==
    hours.kind = "hours" /\ hours.startTime # NullTime /\ hours.endTime # NullTime

\* `${hours.startTime}|${hours.endTime}`, or "closed"
KeyOf(hours) ==
    IF HasHours(hours) THEN hours.startTime \o <<"|">> \o hours.endTime
    ELSE <<"closed">>

\* the position of the entry of a key in the Map, 0 when it has none
EntryOf(byKey, key) ==
    IF \E i \in 1..Len(byKey) : byKey[i].key = key
    THEN CHOOSE i \in 1..Len(byKey) : byKey[i].key = key
    ELSE 0

\* a grouping that starts a new entry whenever the key changes
RECURSIVE M_GroupDays_Runs(_, _, _)
M_GroupDays_Runs(sched, d, byKey) ==
    IF d > Len(DAY_KEYS) THEN byKey
    ELSE LET hours == sched[d]
             key == KeyOf(hours)
             n == Len(byKey)
         IN M_GroupDays_Runs(sched, d + 1,
               IF n = 0 \/ byKey[n].key # key
               THEN Append(byKey, [key |-> key, days |-> <<d>>,
                                   startTime |-> hours.startTime,
                                   endTime |-> hours.endTime])
               ELSE [byKey EXCEPT ![n].days = Append(@, d)])

\* the loop over DAY_KEYS from day d on: byKey is the Map, in insertion order
RECURSIVE GroupDays(_, _, _)
GroupDays(sched, d, byKey) ==
    IF d > Len(DAY_KEYS) THEN byKey
    ELSE LET hours == sched[d]
             key == KeyOf(hours)
             i == EntryOf(byKey, key)
         IN GroupDays(sched, d + 1,
               IF i = 0
               THEN Append(byKey, [key |-> key, days |-> <<d>>,
                                   startTime |-> hours.startTime,
                                   endTime |-> hours.endTime])
               ELSE [byKey EXCEPT ![i].days = Append(@, d)])

\* an entry put in its place in a sequence sorted by firstDayIndex
RECURSIVE InsertByFirstDay(_, _)
InsertByFirstDay(sorted, e) ==
    IF sorted = <<>> THEN <<e>>
    ELSE IF e.days[1] < Head(sorted).days[1] THEN <<e>> \o sorted
    ELSE <<Head(sorted)>> \o InsertByFirstDay(Tail(sorted), e)

\* the entries left as the Map has them
M_SortByFirstDay_Reversed(entries) ==
    [i \in 1..Len(entries) |-> entries[Len(entries) + 1 - i]]

\* sort((a, b) => a.firstDayIndex - b.firstDayIndex)
RECURSIVE SortByFirstDay(_)
SortByFirstDay(entries) ==
    IF entries = <<>> THEN <<>>
    ELSE InsertByFirstDay(SortByFirstDay(Tail(entries)), Head(entries))

DigitChars == <<"0", "1", "2", "3", "4", "5", "6", "7", "8", "9">>
IsDigit(ch) == \E i \in 1..10 : DigitChars[i] = ch
DigitValue(ch) == (CHOOSE i \in 1..10 : DigitChars[i] = ch) - 1
NaN == -1

\* Number(str) of a string of digits and spaces: NaN unless, trimmed, it is
\* empty or all digits
RECURSIVE DigitsValue(_, _)
DigitsValue(str, acc) ==
    IF str = <<>> THEN acc
    ELSE DigitsValue(Tail(str), acc * 10 + DigitValue(Head(str)))

ToNumber(str) ==
    IF \A i \in 1..Len(Trim(str)) : IsDigit(Trim(str)[i])
    THEN DigitsValue(Trim(str), 0)
    ELSE NaN

\* split(":")
RECURSIVE SplitColon(_, _)
SplitColon(str, part) ==
    IF str = <<>> THEN <<part>>
    ELSE IF Head(str) = ":" THEN <<part>> \o SplitColon(Tail(str), <<>>)
    ELSE SplitColon(Tail(str), Append(part, Head(str)))

\* n.toString() of a natural number
RECURSIVE Decimal(_)
Decimal(n) ==
    IF n < 10 THEN <<DigitChars[n + 1]>>
    ELSE Decimal(n \div 10) \o <<DigitChars[(n % 10) + 1]>>

\* padStart(2, "0")
PadStart2(str) == IF Len(str) < 2 THEN <<"0">> \o str ELSE str

FormatTimeTo12h(time) ==
    IF Trim(time) = <<>> THEN <<>>
    ELSE LET parts == SplitColon(Trim(time), <<>>)
             h == ToNumber(parts[1])
             m == IF Len(parts) >= 2 THEN ToNumber(parts[2]) ELSE NaN
         IN IF h = NaN THEN time
            ELSE LET hour == IF h % 12 = 0 THEN 12 ELSE h % 12
                     minute == IF m = NaN THEN 0 ELSE m
                 IN Decimal(hour) \o <<":">> \o PadStart2(Decimal(minute))
                    \o <<" ">> \o (IF h < 12 THEN <<"A", "M">> ELSE <<"P", "M">>)

\* "Closed", or the two times in 12-hour form around a dash
TimeRange(e) ==
    IF e.key = <<"closed">> THEN <<"Closed">>
    ELSE FormatTimeTo12h(e.startTime) \o <<" ", "-", " ">>
         \o FormatTimeTo12h(e.endTime)

getFacilityScheduleGroups(sched) ==
    IF sched = NullSchedule THEN <<>>
    ELSE LET entries == SortByFirstDay(GroupDays(sched, 1, <<>>))
         IN [i \in 1..Len(entries) |->
               [dayLabels |-> [j \in 1..Len(entries[i].days) |->
                                  DAY_LABELS[entries[i].days[j]]],
                timeRange |-> TimeRange(entries[i])]]


\* a form that shows every day as closed
M_formStateFromSchedule_Blank(sched) == initialFormState

formStateFromSchedule(sched) ==
    [d \in DayIndexes |->
        LET hours == IF sched = NullSchedule THEN Absent ELSE sched[d]
        IN IF HasHours(hours) THEN FormRow(hours.startTime, hours.endTime)
           ELSE FormRow(<<>>, <<>>)]

scheduleFromFormState(state) ==
    [d \in DayIndexes |->
        IF Trim(state[d].startTime) # <<>> /\ Trim(state[d].endTime) # <<>>
        THEN Hours(Trim(state[d].startTime), Trim(state[d].endTime))
        ELSE NullDay]

getInitialOperatingScheduleFormState(sched) ==
    IF sched = NullSchedule THEN initialFormState
    ELSE formStateFromSchedule(sched)


\* the facility page renders the groups of the schedule
RenderSchedule ==
    /\ ~groups.shown
    /\ groups' = [shown |-> TRUE, list |-> getFacilityScheduleGroups(schedule)]
    /\ UNCHANGED <<schedule, scheduleForm, payload>>
    /\ UNCHANGED <<storeVars, last, calls, clientVars, inflight>>

\* startEditSchedule
StartEditSchedule ==
    /\ scheduleForm' = getInitialOperatingScheduleFormState(schedule)
    /\ scheduleForm' # scheduleForm
    /\ UNCHANGED <<schedule, payload, groups>>
    /\ UNCHANGED <<storeVars, last, calls, clientVars, inflight>>

\* saveSchedule, up to the payload it sends
SaveSchedule ==
    /\ payload' = scheduleFromFormState(scheduleForm)
    /\ payload' # payload
    /\ UNCHANGED <<schedule, scheduleForm, groups>>
    /\ UNCHANGED <<storeVars, last, calls, clientVars, inflight>>

\* the times a schedule or a form row is made of
T0900 == <<"0", "9", ":", "0", "0">>
T900 == <<"9", ":", "0", "0">>
T1730 == <<"1", "7", ":", "3", "0">>
\* the schedules a facility is loaded with: every day closed or with one of
\* two hours that differ in their strings only, and such schedules with
\* monday or thursday missing or with a start time only; an empty object
OpenOrClosed == {NullDay, Hours(T0900, T1730), Hours(T900, T1730)}
Schedules ==
    LET plain == [DayIndexes -> OpenOrClosed]
    IN plain
       \cup {[s EXCEPT ![d] = x] : s \in plain, d \in {1, 4},
                                   x \in {Absent, Hours(T0900, NullTime)}}
       \cup {[d \in DayIndexes |-> Absent]}
\* the forms scheduleFromFormState is given: the first three rows empty,
\* filled, filled with spaces around the times, or with a blank start
FormRows == {FormRow(<<>>, <<>>), FormRow(T0900, T1730),
             FormRow(<<" ">> \o T0900, T1730 \o <<" ">>),
             FormRow(<<" ">>, T1730)}
FormInputs ==
    {[d \in DayIndexes |-> IF d <= 3 THEN f[d] ELSE FormRow(<<>>, <<>>)] :
        f \in [1..3 -> FormRows]}

InitSchedule ==
    /\ member = {StaffRow("u1", "o1", "admin")}
    /\ team = {}
    /\ nextTeamId = 1
    /\ teamMember = {}
    /\ organizationPlayer = {}
    /\ league = {}
    /\ nextLeagueId = 1
    /\ leagueTeam = {}
    /\ teamIdUnique = FALSE
    /\ invitation = {}
    /\ nextInvitationId = 1
    /\ facility = {FacilityRow(1, "o1", <<"a">>, <<"a">>)}
    /\ nextFacilityId = 2
    /\ facilitySurface = {}
    /\ nextSurfaceId = 1
    /\ InitClosed
    /\ calls = 0
    /\ last = [op |-> "createFacility", res |-> "OK", at |-> "created", auth |-> TRUE]
    /\ \/ schedule \in Schedules \cup {NullSchedule} /\ scheduleForm = initialFormState
       \/ schedule = NullSchedule /\ scheduleForm \in FormInputs
    /\ payload = NullSchedule
    /\ groups = NotRendered
    /\ inflight = {}

NextSchedule ==
    \/ RenderSchedule
    \/ StartEditSchedule
    \/ SaveSchedule

SpecSchedule == InitSchedule /\ [][NextSchedule]_vars

\* the roster handlers, called for the user ids and emails of U and with the
\* statuses of S
NextRosterOn(U, S) ==
    \/ \E c \in Callers, o \in Orgs, a \in U : Api(CreateTeam(c, o, a))
    \/ \E c \in Callers, o \in Orgs, t \in TeamIds : Api(DeleteTeam(c, o, t))
    \/ \E c \in Callers, o \in Orgs, t \in TeamIds, u \in U :
          Api(AddPlayerToTeam(c, o, t, u))
    \/ \E c \in Callers, o \in Orgs, t \in TeamIds, e \in U, s \in S :
          Api(AddPlayer(c, o, t, e, s))
    \/ \E c \in Callers, o \in Orgs, t \in TeamIds, u \in U :
          Api(RemovePlayerFromTeam(c, o, t, u))
    \/ \E c \in Callers, o \in Orgs, pid \in Orgs \X (U \cap Users), s \in S :
          Api(UpdatePlayer(c, o, pid, s))
    \/ \E c \in Callers, o \in Orgs, pid \in Orgs \X (U \cap Users) :
          Api(RemovePlayer(c, o, pid))

\* one staffed organization, three users and an unknown one
NextRoster == NextRosterOn(UserInputs, Statuses)
SpecRoster == InitOne /\ [][NextRoster]_vars

\* two staffed organizations, two users
NextCross == NextRosterOn(CrossUsers, {"active"})
SpecCross == InitTwo /\ [][NextCross]_vars

\* the league handlers; teams come from createTeam with one designated admin
NextLeague ==
    \/ \E c \in Callers, o \in Orgs : Api(CreateTeam(c, o, "u3"))
    \/ \E c \in Callers, o \in Orgs, t \in TeamIds : Api(DeleteTeam(c, o, t))
    \/ \E c \in Callers, o \in Orgs : Api(CreateLeague(c, o, <<"a">>))
    \/ \E c \in Callers, o \in Orgs, l \in LeagueIds : Api(DeleteLeague(c, o, l))
    \/ \E c \in Callers, o \in Orgs, l \in LeagueIds, t \in TeamIds :
          Api(AddTeamToLeague(c, o, l, t))
    \/ \E c \in Callers, o \in Orgs, l \in LeagueIds, t \in TeamIds :
          Api(RemoveTeamFromLeague(c, o, l, t))

SpecLeague == InitTwo /\ [][NextLeague]_vars

\* the names and slugs the facility calls are tried with
FacilityNames == {<<"B", " ", "a">>, <<"-">>}
SlugInputs == {<<>>, <<"b", "-", "a">>}

\* every procedure that takes an organizationId, in sessions of at most
\* MaxCalls calls; the entity arguments come from small sets, the caller and
\* the organization from all of them
GateUsers == {"u2", NoUser}
NextGate ==
    \/ \E c \in Callers, o \in Orgs : Counted(GetTeamStats(c, o))
    \/ \E c \in Callers, o \in Orgs : Counted(ListTeams(c, o))
    \/ \E c \in Callers, o \in Orgs, t \in TeamIds : Counted(GetTeamBySlug(c, o, t))
    \/ \E c \in Callers, o \in Orgs, t \in TeamIds : Counted(DeleteTeam(c, o, t))
    \/ \E c \in Callers, o \in Orgs : Counted(GetLeagueStats(c, o))
    \/ \E c \in Callers, o \in Orgs : Counted(ListLeagues(c, o))
    \/ \E c \in Callers, o \in Orgs, l \in LeagueIds : Counted(GetLeagueById(c, o, l))
    \/ \E c \in Callers, o \in Orgs, l \in LeagueIds :
          Counted(ListTeamsAvailableForLeague(c, o, l))
    \/ \E c \in Callers, o \in Orgs, l \in LeagueIds, t \in TeamIds :
          Counted(AddTeamToLeague(c, o, l, t))
    \/ \E c \in Callers, o \in Orgs, l \in LeagueIds, t \in TeamIds :
          Counted(RemoveTeamFromLeague(c, o, l, t))
    \/ \E c \in Callers, o \in Orgs, t \in TeamIds :
          Counted(ListPlayersAvailableForTeam(c, o, t))
    \/ \E c \in Callers, o \in Orgs, t \in TeamIds, u \in GateUsers :
          Counted(AddPlayerToTeam(c, o, t, u))
    \/ \E c \in Callers, o \in Orgs, t \in TeamIds, u \in GateUsers :
          Counted(RemovePlayerFromTeam(c, o, t, u))
    \/ \E c \in Callers, o \in Orgs, l \in LeagueIds : Counted(DeleteLeague(c, o, l))
    \/ \E c \in Callers, o \in Orgs : Counted(CreateLeague(c, o, <<"a">>))
    \/ \E c \in Callers, o \in Orgs, a \in GateUsers : Counted(CreateTeam(c, o, a))
    \/ \E c \in Callers, o \in Orgs : Counted(GetPlayerStats(c, o))
    \/ \E c \in Callers, o \in Orgs : Counted(ListPlayers(c, o))
    \/ \E c \in Callers, o \in Orgs, t \in TeamIds, e \in GateUsers :
          Counted(AddPlayer(c, o, t, e, "active"))
    \/ \E c \in Callers, o \in Orgs, pid \in Orgs \X {"u2"} :
          Counted(UpdatePlayer(c, o, pid, "active"))
    \/ \E c \in Callers, o \in Orgs, pid \in Orgs \X {"u2"} :
          Counted(RemovePlayer(c, o, pid))
    \/ \E c \in Callers, o \in Orgs : Counted(ListStaff(c, o))
    \/ \E c \in Callers, o \in Orgs, e \in GateUsers : Counted(AddStaff(c, o, e, "editor"))
    \/ \E c \in Callers, o \in Orgs, mid \in MemberIds :
          Counted(UpdateStaff(c, o, mid, "viewer"))
    \/ \E c \in Callers, o \in Orgs, mid \in MemberIds : Counted(RemoveStaff(c, o, mid))
    \/ \E c \in Callers, o \in Orgs : Counted(Invite(c, o, NoUser, "viewer"))
    \/ \E c \in Callers, o \in Orgs : Counted(ListFacilities(c, o))
    \/ \E c \in Callers, o \in Orgs, f \in FacilityIds : Counted(GetFacility(c, o, f))
    \/ \E c \in Callers, o \in Orgs, name \in FacilityNames, slug \in SlugInputs :
          Counted(CreateFacility(c, o, name, slug))
    \/ \E c \in Callers, o \in Orgs, f \in FacilityIds, name \in FacilityNames :
          Counted(UpdateFacility(c, o, f, name))
    \/ \E c \in Callers, o \in Orgs, f \in FacilityIds : Counted(DeleteFacility(c, o, f))
    \/ \E c \in Callers, o \in Orgs, f \in FacilityIds, name \in FacilityNames :
          Counted(AddFacilitySurface(c, o, f, name))
    \/ \E c \in Callers, o \in Orgs, f \in FacilityIds, x \in SurfaceIds,
          name \in FacilityNames : Counted(UpdateFacilitySurface(c, o, f, x, name))
    \/ \E c \in Callers, o \in Orgs, f \in FacilityIds, x \in SurfaceIds :
          Counted(RemoveFacilitySurface(c, o, f, x))

SpecGate == InitOne /\ [][NextGate]_vars

(***************************************************************************)
(* Concurrent calls: a handler awaits the store between its statements, so *)
(* another call can run between the pre-check of a call and its insert.    *)
(* A call that has passed its checks waits in inflight for its insert.     *)
(***************************************************************************)
NoLeague == 0
Pending(n, op, c, o, l, t, u) ==
    [n |-> n, op |-> op, c |-> c, o |-> o, league |-> l, team |-> t, user |-> u,
     pc |-> "insert", args |-> <<>>]
\* the call r at the statement pc, with the locals it has computed
At(r, pc, args) == [r EXCEPT !.pc = pc, !.args = args]
\* the number of a new call
FreshCall == CHOOSE n \in 1..MaxInflight : ~\E r \in inflight : r.n = n

\* a call that ends in a pre-check ends as the handler does; one that passes
\* them goes to its insert
Begin(passes, H, r) ==
    /\ Cardinality(inflight) < MaxInflight
    /\ IF passes
       THEN /\ inflight' = inflight \cup {r}
            /\ UNCHANGED <<storeVars, last>>
       ELSE H /\ UNCHANGED inflight
    /\ UNCHANGED <<calls, clientVars, scheduleVars>>

\* addPlayerToTeam up to the alreadyOnTeam check
BeginAddPlayerToTeam(c, o, t, u) ==
    Begin(IsStaff(c, o) /\ TeamInOrg(t, o) /\ OnRoster(o, u) /\ ~AlreadyOnTeam(u),
          AddPlayerToTeam(c, o, t, u),
          Pending(FreshCall, "addPlayerToTeam", c, o, NoLeague, t, u))

\* addPlayer up to the alreadyInTeam check
BeginAddPlayer(c, o, t, e) ==
    Begin(/\ IsStaff(c, o) /\ TeamInOrg(t, o) /\ UserByEmail(e) # {}
          /\ \A u \in UserByEmail(e) : ~AlreadyOnTeam(u),
          AddPlayer(c, o, t, e, "inactive"),
          Pending(FreshCall, "addPlayer", c, o, NoLeague, t, e))

\* addTeamToLeague up to the alreadyInThisLeague check
BeginAddTeamToLeague(c, o, l, t) ==
    Begin(/\ IsStaff(c, o) /\ LeagueInOrg(l, o) /\ TeamInOrg(t, o)
          /\ ~AlreadyInThisLeague(l, t),
          AddTeamToLeague(c, o, l, t),
          Pending(FreshCall, "addTeamToLeague", c, o, l, t, NoUser))

\* insert into team_member, of addPlayerToTeam and of addPlayer (after its
\* roster upsert): a constraint violation is thrown by the store and no
\* handler catches it
InsertTeamMember(r) ==
    /\ r.op \in {"addPlayerToTeam", "addPlayer"}
    /\ organizationPlayer' =
          IF r.op = "addPlayer" THEN UpsertPlayer(r.o, r.user, "inactive")
          ELSE organizationPlayer
    /\ IF TeamMemberInsertFails(teamMember, team, r.team, r.user)
       THEN /\ UNCHANGED teamMember
            /\ last' = Result(r.op, "STORE_ERROR", "insert team_member", r.c, r.o)
       ELSE /\ teamMember' = teamMember \cup {TeamMemberRow(r.team, r.user, "member")}
            /\ last' = Result(r.op, "OK", "created", r.c, r.o)
    /\ UNCHANGED leagueTeam

\* insert into league_team, of addTeamToLeague
InsertLeagueTeam(r) ==
    /\ r.op = "addTeamToLeague"
    /\ IF LeagueTeamInsertFails(r.league, r.team)
       THEN /\ UNCHANGED leagueTeam
            /\ last' = Result(r.op, "STORE_ERROR", "insert league_team", r.c, r.o)
       ELSE /\ leagueTeam' = leagueTeam \cup
                   {LeagueTeamRow(r.league, r.team,
                                  1 + Cardinality(PairRows(r.league, r.team)))}
            /\ last' = Result(r.op, "OK", "created", r.c, r.o)
    /\ UNCHANGED <<teamMember, organizationPlayer>>

\* a call that has passed its checks makes its insert and returns
Finish(r) ==
    /\ r \in inflight
    /\ inflight' = inflight \ {r}
    /\ InsertTeamMember(r) \/ InsertLeagueTeam(r)
    /\ UNCHANGED <<member, team, nextTeamId, league, nextLeagueId, teamIdUnique,
                   invitationVars, facilityVars, calls, clientVars, scheduleVars>>

InitRace ==
    /\ InitSaveStore
    /\ InitClosed
    /\ InitNoSchedule
    /\ inflight = {}

\* calls of one staff member's sessions that overlap, and removals
NextRace ==
    \/ \E t \in TeamIds, u \in {"u2", "u3"} : BeginAddPlayerToTeam(Viewer, "o1", t, u)
    \/ \E t \in TeamIds, e \in {"u1", "u3"} : BeginAddPlayer(Viewer, "o1", t, e)
    \/ \E l \in {1}, t \in TeamIds : BeginAddTeamToLeague(Viewer, "o1", l, t)
    \/ \E r \in inflight : Finish(r)

SpecRace == InitRace /\ [][NextRace]_vars

\* rosters and memberships of two organizations, and the roster list
NextList ==
    \/ \E c \in Callers, o \in Orgs, a \in CrossUsers : Api(CreateTeam(c, o, a))
    \/ \E c \in Callers, o \in Orgs, t \in TeamIds, e \in CrossUsers :
          Api(AddPlayer(c, o, t, e, "active"))
    \/ \E c \in Callers, o \in Orgs, t \in TeamIds, u \in CrossUsers :
          Api(RemovePlayerFromTeam(c, o, t, u))
    \/ \E c \in Callers, o \in Orgs : Api(ListPlayers(c, o))

SpecList == InitTwo /\ [][NextList]_vars

\* the names createLeague is called with: two that slugify to b-a and to
\* b-a-1, one that slugifies to nothing
SlugNames == {<<"B", " ", "-", "a", "-">>, <<"b", "-", "a", "-", "1">>,
              <<" ", "-", " ">>}
\* the <<name, slug argument>> pairs createFacility is called with: the slug
\* argument absent, blank, with characters outside [a-z0-9-], and well-formed
SlugCalls == {<<<<"B", " ", "-", "a", "-">>, <<>>>>,
              <<<<"b", "-", "a", "-", "1">>, <<" ">>>>,
              <<<<" ", "-", " ">>, <<>>>>,
              <<<<"b", " ", "a">>, <<"B", " ", "a">>>>,
              <<<<" ", "-", " ">>, <<"b", "-", "a">>>>}

\* creations and deletions of facilities and leagues
NextSlug ==
    \/ \E c \in Callers, o \in Orgs, p \in SlugCalls :
          Api(CreateFacility(c, o, p[1], p[2]))
    \/ \E c \in Callers, o \in Orgs, f \in FacilityIds : Api(DeleteFacility(c, o, f))
    \/ \E c \in Callers, o \in Orgs, name \in SlugNames : Api(CreateLeague(c, o, name))
    \/ \E c \in Callers, o \in Orgs, l \in LeagueIds : Api(DeleteLeague(c, o, l))

SpecSlug == InitOne /\ [][NextSlug]_vars

(***************************************************************************)
(* Concurrent creations: the slug probe of createFacility and createLeague *)
(* reads, the insert writes, and other calls run in between.               *)
(***************************************************************************)
\* createFacility up to the end of its probe loop: the slug it will insert
BeginCreateFacility(c, o, name, slugInput) ==
    Begin(IsStaff(c, o),
          CreateFacility(c, o, name, slugInput),
          At(Pending(FreshCall, "createFacility", c, o, NoLeague, NoTeam, NoUser),
             "insert",
             <<Trim(name), ProbeSlug(OrgFacilitySlugs(o),
                                     BaseSlug(slugInput, name, FacilityFallback), 0)>>))

\* createLeague up to the end of its probe loop
BeginCreateLeague(c, o, name) ==
    Begin(IsStaff(c, o),
          CreateLeague(c, o, name),
          At(Pending(FreshCall, "createLeague", c, o, NoLeague, NoTeam, NoUser),
             "insert",
             <<Trim(name), ProbeSlug(OrgLeagueSlugs(o), LeagueBaseSlug(name), 0)>>))

\* insert into facility with the probed slug: a constraint violation is
\* thrown by the store and the handler does not catch it
InsertFacility(r) ==
    /\ r.op = "createFacility"
    /\ IF FacilityInsertFails(r.o, r.args[2])
       THEN /\ UNCHANGED <<facility, nextFacilityId>>
            /\ last' = Result(r.op, "STORE_ERROR", "insert facility", r.c, r.o)
       ELSE /\ nextFacilityId <= MaxFacilities
            /\ facility' = facility \cup
                   {FacilityRow(nextFacilityId, r.o, r.args[1], r.args[2])}
            /\ nextFacilityId' = nextFacilityId + 1
            /\ last' = Result(r.op, "OK", "created", r.c, r.o)
    /\ UNCHANGED <<league, nextLeagueId>>

\* insert into league with the probed slug
InsertLeague(r) ==
    /\ r.op = "createLeague"
    /\ IF LeagueInsertFails(r.o, r.args[2])
       THEN /\ UNCHANGED <<league, nextLeagueId>>
            /\ last' = Result(r.op, "STORE_ERROR", "insert league", r.c, r.o)
       ELSE /\ nextLeagueId <= MaxLeagues
            /\ league' = league \cup {LeagueRow(nextLeagueId, r.o, r.args[2])}
            /\ nextLeagueId' = nextLeagueId + 1
            /\ last' = Result(r.op, "OK", "created", r.c, r.o)
    /\ UNCHANGED <<facility, nextFacilityId>>

\* a creation that has probed makes its insert and returns
FinishCreate(r) ==
    /\ r \in inflight
    /\ inflight' = inflight \ {r}
    /\ InsertFacility(r) \/ InsertLeague(r)
    /\ UNCHANGED <<member, team, nextTeamId, teamMember, organizationPlayer,
                   leagueTeam, teamIdUnique, invitationVars, facilitySurface,
                   nextSurfaceId, calls, clientVars, scheduleVars>>

\* the <<name, slug argument>> pairs of the overlapping createFacility calls:
\* two with the base "b-a", one with the base "b-a-1"
RaceCalls == {<<<<"B", " ", "-", "a", "-">>, <<>>>>,
              <<<<" ", "-", " ">>, <<"b", "-", "a">>>>,
              <<<<"b", "-", "a", "-", "1">>, <<" ">>>>}

\* creations that overlap, and deletions
NextSlugRace ==
    \/ \E p \in RaceCalls : BeginCreateFacility(Viewer, "o1", p[1], p[2])
    \/ \E name \in SlugNames : BeginCreateLeague(Viewer, "o1", name)
    \/ \E r \in inflight : FinishCreate(r)
    \/ \E f \in FacilityIds : Api(DeleteFacility(Viewer, "o1", f))

SpecSlugRace == InitOne /\ [][NextSlugRace]_vars

(***************************************************************************)
(* Calls interleaved at the granularity of store statements: every await   *)
(* of a handler is a point where other calls run.                          *)
(***************************************************************************)
\* the call r throws or returns: it leaves with its result
Leave(r, res, at) ==
    /\ inflight' = inflight \ {r}
    /\ last' = Result(r.op, res, at, r.c, r.o)

\* the call r goes on to its next statement
Goto(r, pc, args) ==
    /\ inflight' = (inflight \ {r}) \cup {At(r, pc, args)}
    /\ UNCHANGED last

\* removeStaff, first statement: the membership gate
BeginRemoveStaff(c, o, mid) ==
    Begin(IsStaff(c, o),
          RemoveStaff(c, o, mid),
          At(Pending(FreshCall, "removeStaff", c, o, NoLeague, NoTeam, NoUser),
             "target", mid))

\* removeStaff, second statement: the target row, and the check that it is
\* not the caller's own
TargetRemoveStaff(r) ==
    /\ r \in inflight /\ r.op = "removeStaff" /\ r.pc = "target"
    /\ IF StaffById(r.args, r.o) = {} THEN Leave(r, "NOT_FOUND", "target")
       ELSE IF \E target \in StaffById(r.args, r.o) : target.userId = r.c
            THEN Leave(r, "BAD_REQUEST", "self")
       ELSE Goto(r, "delete", r.args)
    /\ UNCHANGED <<storeVars, calls, clientVars, scheduleVars>>

\* removeStaff, third statement: delete from member where id = memberId
DeleteRemoveStaff(r) ==
    /\ r \in inflight /\ r.op = "removeStaff" /\ r.pc = "delete"
    /\ member' = {m \in member : <<m.userId, m.organizationId>> # r.args}
    /\ IF member' = member THEN Leave(r, "INTERNAL_SERVER_ERROR", "delete")
       ELSE Leave(r, "OK", "removed")
    /\ UNCHANGED <<team, nextTeamId, teamMember, organizationPlayer, league,
                   nextLeagueId, leagueTeam, teamIdUnique, invitationVars,
                   facilityVars, calls, clientVars, scheduleVars>>

\* addPlayerToTeam and addPlayer split before their insert, with removePlayer
\* calls running in between
NextRosterRace ==
    \/ \E t \in TeamIds, u \in Users : BeginAddPlayerToTeam(Viewer, "o1", t, u)
    \/ \E t \in TeamIds, e \in Users : BeginAddPlayer(Viewer, "o1", t, e)
    \/ \E r \in inflight : Finish(r)
    \/ \E u \in Users : Api(RemovePlayer(Viewer, "o1", <<"o1", u>>))

SpecRosterRace == InitRace /\ [][NextRosterRace]_vars

(***************************************************************************)
(* removePlayerFromTeam statement by statement, as the remove batch of the *)
(* team players screen has its calls overlap.                              *)
(***************************************************************************)
\* first statement: the membership gate; the calls of a batch are for
\* different users
BeginRemovePlayerFromTeam(c, o, t, u) ==
    /\ ~\E r \in inflight : r.user = u
    /\ Begin(IsStaff(c, o),
             RemovePlayerFromTeam(c, o, t, u),
             At(Pending(FreshCall, "removePlayerFromTeam", c, o, NoLeague, t, u),
                "current", <<>>))

\* teamMember.findFirst where teamId and userId: current and its role
CurrentRemovePlayer(r) ==
    /\ r \in inflight /\ r.op = "removePlayerFromTeam" /\ r.pc = "current"
    /\ IF CurrentRows(r.team, r.user) = {} THEN Leave(r, "NOT_FOUND", "current")
       ELSE \E current \in CurrentRows(r.team, r.user) :
              IF current.role = "admin" THEN Goto(r, "next", <<>>)
              ELSE Goto(r, "delete", <<>>)
    /\ UNCHANGED <<storeVars, calls, clientVars, scheduleVars>>

\* select from team_member where teamId = t and userId <> u limit 1
NextAdminRemovePlayer(r) ==
    /\ r \in inflight /\ r.op = "removePlayerFromTeam" /\ r.pc = "next"
    /\ IF NextAdminRows(r.team, r.user) = {} THEN Goto(r, "delete", <<>>)
       ELSE \E n \in NextAdminRows(r.team, r.user) : Goto(r, "promote", <<n.userId>>)
    /\ UNCHANGED <<storeVars, calls, clientVars, scheduleVars>>

\* update team_member set role = 'admin' where id = nextAdminRow.id: no row
\* is updated when that row is gone
PromoteRemovePlayer(r) ==
    /\ r \in inflight /\ r.op = "removePlayerFromTeam" /\ r.pc = "promote"
    /\ teamMember' =
          IF CurrentRows(r.team, r.args[1]) = {} THEN teamMember
          ELSE Promote(teamMember, CHOOSE n \in CurrentRows(r.team, r.args[1]) : TRUE)
    /\ Goto(r, "delete", <<>>)
    /\ UNCHANGED <<member, team, nextTeamId, organizationPlayer, league,
                   nextLeagueId, leagueTeam, teamIdUnique, invitationVars,
                   facilityVars, calls, clientVars, scheduleVars>>

\* delete from team_member where teamId = t and userId = u
DeleteRemovePlayer(r) ==
    /\ r \in inflight /\ r.op = "removePlayerFromTeam" /\ r.pc = "delete"
    /\ teamMember' = DeleteMember(teamMember, r.team, r.user)
    /\ Leave(r, "OK", "removed")
    /\ UNCHANGED <<member, team, nextTeamId, organizationPlayer, league,
                   nextLeagueId, leagueTeam, teamIdUnique, invitationVars,
                   facilityVars, calls, clientVars, scheduleVars>>

\* a call made while no other call is under way
Alone(H) == inflight = {} /\ Api(H)

\* team 1, while it has its admin, filled by addPlayer, and emptied by
\* overlapping removals
NextSuccession ==
    \/ \E e \in Users :
          /\ \E m \in teamMember : m.teamId = 1 /\ m.role = "admin"
          /\ Alone(AddPlayer(Viewer, "o1", 1, e, "active"))
    \/ \E u \in Users : BeginRemovePlayerFromTeam(Viewer, "o1", 1, u)
    \/ \E r \in inflight : CurrentRemovePlayer(r)
    \/ \E r \in inflight : NextAdminRemovePlayer(r)
    \/ \E r \in inflight : PromoteRemovePlayer(r)
    \/ \E r \in inflight : DeleteRemovePlayer(r)

SpecSuccession == InitRace /\ [][NextSuccession]_vars

\* the two users whose removeStaff calls overlap
RaceStaff == {"u1", "u2"}

\* the staff procedures, whole and interleaved
NextStaff ==
    \/ \E c \in Callers, o \in Orgs, e \in Users : Api(AddStaff(c, o, e, "editor"))
    \/ \E c \in Callers, o \in Orgs, mid \in MemberIds : Api(RemoveStaff(c, o, mid))
    \/ \E c \in RaceStaff, u \in RaceStaff : BeginRemoveStaff(c, "o1", <<u, "o1">>)
    \/ \E r \in inflight : TargetRemoveStaff(r)
    \/ \E r \in inflight : DeleteRemoveStaff(r)

SpecStaff == InitTwo /\ [][NextStaff]_vars

(***************************************************************************)
(* Mounting a "manage" screen: the first render, the query's data arriving *)
(* (from the cache before the first effect, or from the network after it), *)
(* and the sync effect, which runs after every render that changed its     *)
(* dependencies.                                                           *)
(***************************************************************************)
\* the route is entered: the component renders for the first time, with the
\* query's data if it is cached
OpenScreen(kind, cached) ==
    /\ page.kind = "closed"
    /\ page' = [kind |-> kind, o |-> "o1", id |-> 1]
    /\ mount' = [prev |-> 0, loaded |-> cached, todo |-> TRUE]
    /\ initialIds' = {}
    /\ localIds' = {}
    /\ UNCHANGED <<saves, nextSave, requests, latest, storeVars, last, calls,
                   scheduleVars, inflight>>

\* the query resolves: league (team) becomes defined and the component
\* renders again
DataArrives ==
    /\ page.kind # "closed"
    /\ ~mount.loaded
    /\ mount' = [mount EXCEPT !.loaded = TRUE, !.todo = TRUE]
    /\ UNCHANGED <<page, initialIds, localIds, saves, nextSave, requests, latest,
                   storeVars, last, calls, scheduleVars, inflight>>

\* the effect of the league screen: participatingTeams is
\* league?.participatingTeams ?? [], never undefined
SyncLeagueTeams ==
    /\ page.kind = "leagueTeams"
    /\ mount.todo
    /\ IF mount.prev # page.id
       THEN LET ids == IF mount.loaded THEN ParticipatingTeams(page.id) ELSE {}
            IN /\ mount' = [mount EXCEPT !.prev = page.id, !.todo = FALSE]
               /\ initialIds' = ids
               /\ localIds' = ids
       ELSE /\ mount' = [mount EXCEPT !.todo = FALSE]
            /\ UNCHANGED <<initialIds, localIds>>
    /\ UNCHANGED <<page, saves, nextSave, requests, latest, storeVars, last, calls,
                   scheduleVars, inflight>>

\* the effect of the players screen: it returns while team?.id is undefined
SyncTeamPlayers ==
    /\ page.kind = "teamPlayers"
    /\ mount.todo
    /\ IF mount.loaded /\ mount.prev # page.id
       THEN LET ids == {r.userId : r \in {q \in teamMember : q.teamId = page.id}}
            IN /\ mount' = [mount EXCEPT !.prev = page.id, !.todo = FALSE]
               /\ initialIds' = ids
               /\ localIds' = ids
       ELSE /\ mount' = [mount EXCEPT !.todo = FALSE]
            /\ UNCHANGED <<initialIds, localIds>>
    /\ UNCHANGED <<page, saves, nextSave, requests, latest, storeVars, last, calls,
                   scheduleVars, inflight>>

\* the route is left: the component unmounts and its state is gone
CloseScreen ==
    /\ page.kind # "closed"
    /\ page' = ClosedPage
    /\ mount' = NotMounted
    /\ initialIds' = {}
    /\ localIds' = {}
    /\ UNCHANGED <<saves, nextSave, requests, latest, storeVars, last, calls,
                   scheduleVars, inflight>>

\* a call made while no screen is open
Elsewhere(H) == page.kind = "closed" /\ Api(H)

InitMount ==
    /\ InitSaveStore
    /\ InitClosed
    /\ InitNoSchedule
    /\ inflight = {}

\* the screens opened and left, and the relations changed in between
NextMount ==
    \/ \E kind \in {"leagueTeams", "teamPlayers"}, cached \in BOOLEAN :
          OpenScreen(kind, cached)
    \/ DataArrives
    \/ SyncLeagueTeams
    \/ SyncTeamPlayers
    \/ CloseScreen
    \/ \E t \in TeamIds : Elsewhere(AddTeamToLeague(Viewer, "o1", 1, t))
    \/ \E t \in TeamIds : Elsewhere(RemoveTeamFromLeague(Viewer, "o1", 1, t))
    \/ \E u \in Users : Elsewhere(AddPlayerToTeam(Viewer, "o1", 1, u))
    \/ \E u \in Users : Elsewhere(RemovePlayerFromTeam(Viewer, "o1", 1, u))

SpecMount == InitMount /\ [][NextMount]_vars

\* a "manage" screen at work: edits, saves, the server and the network
NextSave ==
    \/ \E id \in Listed : HandleAdd(id)
    \/ \E id \in localIds : HandleRemove(id)
    \/ HandleSaveTeams
    \/ HandleSavePlayers
    \/ \E r \in requests : Serve(r)
    \/ \E r \in requests : Receive(r)
    \/ \E r \in requests : NetworkError(r)

SpecSave == InitSave /\ [][NextSave]_vars

(***************************************************************************)
(* Properties                                                              *)
(*                                                                         *)
(* A property about the result of a call is an action property: it reads   *)
(* the handler's action as a predicate on the step, so it speaks of every  *)
(* call with the arguments it quantifies over.  Unless it says otherwise,  *)
(* it is about callers that pass the membership gate.                      *)
(***************************************************************************)
MembersOf(rows, t) == {r \in rows : r.teamId = t}
AdminsOf(rows, t) == {r \in rows : r.teamId = t /\ r.role = "admin"}
RowsOfUser(rows, u) == {r \in rows : r.userId = u}
Keys(rows) == {<<r.teamId, r.userId>> : r \in rows}

\* C1: in every reachable state every user holds at most one team_member row,
\* over all teams of all organizations.
C1_OneTeamPerUser ==
    \A u \in Users : Cardinality(RowsOfUser(teamMember, u)) <= 1

\* a createTeam whose designated admin was already on a team has run: its
\* team_member insert was refused and the user still holds one row
C1_Witness ==
    /\ last.op = "createTeam"
    /\ last.at = "insert team_member"
    /\ \E u \in Users : Cardinality(RowsOfUser(teamMember, u)) = 1

\* C2 as claimed: addPlayerToTeam and addPlayer, called by a staff member for
\* a team of the organization and a user who already holds a team_member row
\* anywhere, fail with CONFLICT and leave team_member and organization_player
\* unchanged.
C2_ConflictAlways ==
    [][ /\ last'.op = "addPlayerToTeam" =>
            \A c \in Callers, o \in Orgs, t \in TeamIds, u \in Users :
              (/\ IsStaff(c, o) /\ TeamInOrg(t, o) /\ RowsOfUser(teamMember, u) # {}
               /\ AddPlayerToTeam(c, o, t, u))
              => (last'.res = "CONFLICT" /\ UNCHANGED <<teamMember, organizationPlayer>>)
        /\ last'.op = "addPlayer" =>
            \A c \in Callers, o \in Orgs, t \in TeamIds, u \in Users, s \in Statuses :
              (/\ IsStaff(c, o) /\ TeamInOrg(t, o) /\ RowsOfUser(teamMember, u) # {}
               /\ AddPlayer(c, o, t, u, s))
              => (last'.res = "CONFLICT" /\ UNCHANGED <<teamMember, organizationPlayer>>)
      ]_vars

\* C2, amended: such a call leaves team_member and organization_player
\* unchanged; addPlayer fails with CONFLICT, and addPlayerToTeam fails with
\* CONFLICT when the user is on the organization's roster and with NOT_FOUND
\* when the user is not (the roster lookup comes before the team check).
C2_ConflictOrOffRoster ==
    [][ /\ last'.op = "addPlayerToTeam" =>
            \A c \in Callers, o \in Orgs, t \in TeamIds, u \in Users :
              (/\ IsStaff(c, o) /\ TeamInOrg(t, o) /\ RowsOfUser(teamMember, u) # {}
               /\ AddPlayerToTeam(c, o, t, u))
              => /\ UNCHANGED <<teamMember, organizationPlayer>>
                 /\ last'.res = IF OnRoster(o, u) THEN "CONFLICT" ELSE "NOT_FOUND"
        /\ last'.op = "addPlayer" =>
            \A c \in Callers, o \in Orgs, t \in TeamIds, u \in Users, s \in Statuses :
              (/\ IsStaff(c, o) /\ TeamInOrg(t, o) /\ RowsOfUser(teamMember, u) # {}
               /\ AddPlayer(c, o, t, u, s))
              => (last'.res = "CONFLICT" /\ UNCHANGED <<teamMember, organizationPlayer>>)
      ]_vars

\* an addPlayerToTeam for a user who is on a team has been refused, while a
\* roster entry of that organization has a status other than the default
C2_Witness ==
    /\ last.op = "addPlayerToTeam"
    /\ last.res = "CONFLICT"
    /\ \E p \in organizationPlayer : p.status = "active"

\* C3: removePlayerFromTeam(team, A) by a staff member, A the team's admin:
\* afterwards A has no row on the team; when the team had other members,
\* exactly one row of the team is admin and the (team, user) pairs of the table
\* are those of before less A's; when A was alone the team has no row; the
\* rows of other teams are as before.
C3_AdminSuccession ==
    [][ last'.op = "removePlayerFromTeam" =>
        \A c \in Callers, o \in Orgs, t \in TeamIds, a \in Users :
          (/\ IsStaff(c, o)
           /\ TeamMemberRow(t, a, "admin") \in teamMember
           /\ RemovePlayerFromTeam(c, o, t, a))
          => LET others == {r \in teamMember : r.teamId = t /\ r.userId # a}
             IN /\ last'.res = "OK"
                /\ ~\E r \in teamMember' : r.teamId = t /\ r.userId = a
                /\ Keys(teamMember') = Keys(teamMember) \ {<<t, a>>}
                /\ {r \in teamMember' : r.teamId # t} = {r \in teamMember : r.teamId # t}
                /\ IF others # {}
                   THEN Cardinality(AdminsOf(teamMember', t)) = 1
                   ELSE MembersOf(teamMember', t) = {}
      ]_vars

\* the admin of a team of three has been removed and one of the two others
\* promoted
C3_Witness ==
    /\ last.op = "removePlayerFromTeam"
    /\ last.at = "promoted"
    /\ \E t \in TeamIds :
         /\ Cardinality(MembersOf(teamMember, t)) = 2
         /\ Cardinality(AdminsOf(teamMember, t)) = 1

C5_OneAdminPerTeam ==
    \A t \in TeamIds : Cardinality(AdminsOf(teamMember, t)) <= 1

\* a member has been promoted on the removal of the admin, next to another
\* member who stayed a member
C5_Witness ==
    /\ last.at = "promoted"
    /\ \E t \in TeamIds :
         /\ AdminsOf(teamMember, t) # {}
         /\ \E r \in MembersOf(teamMember, t) : r.role = "member"

\* C6 as claimed: a mutation that names a team or a league the organization
\* does not own, called by a staff member of the organization, fails with
\* NOT_FOUND and changes no row.
C6_OwnershipChecked ==
    [][ last'.res # "FORBIDDEN" =>
        /\ \A c \in Callers, o \in Orgs, t \in TeamIds, u \in Users :
            (/\ IsStaff(c, o) /\ ~TeamInOrg(t, o)
             /\ \/ RemovePlayerFromTeam(c, o, t, u)
                \/ AddPlayerToTeam(c, o, t, u)
                \/ \E s \in Statuses : AddPlayer(c, o, t, u, s)
                \/ DeleteTeam(c, o, t))
            => (last'.res = "NOT_FOUND" /\ UNCHANGED tables)
        /\ \A c \in Callers, o \in Orgs, l \in LeagueIds, t \in TeamIds :
            (/\ IsStaff(c, o) /\ (~TeamInOrg(t, o) \/ ~LeagueInOrg(l, o))
             /\ \/ AddTeamToLeague(c, o, l, t)
                \/ RemoveTeamFromLeague(c, o, l, t))
            => (last'.res = "NOT_FOUND" /\ UNCHANGED tables)
        /\ \A c \in Callers, o \in Orgs, l \in LeagueIds :
            (IsStaff(c, o) /\ ~LeagueInOrg(l, o) /\ DeleteLeague(c, o, l))
            => (last'.res = "NOT_FOUND" /\ UNCHANGED tables)
      ]_vars

\* C7: a call of a procedure that takes an organizationId, made by a user with
\* no organization_member row for that organization, fails with FORBIDDEN at
\* the gate, before any other check, and leaves every table unchanged.
C7_Gate ==
    [][ (calls' # calls /\ ~last'.auth)
        => (last'.res = "FORBIDDEN" /\ last'.at = "gate" /\ UNCHANGED tables) ]_vars

\* a user who is not staff of an organization that has a team, a roster entry
\* and a team_member row has called removePlayerFromTeam there and was refused
C7_Witness ==
    /\ last.op = "removePlayerFromTeam"
    /\ last.res = "FORBIDDEN"
    /\ ~last.auth
    /\ teamMember # {}
    /\ organizationPlayer # {}

\* C8: there is at most one league_team row per (league, team) pair; for a
\* staff caller, addTeamToLeague for a pair that has a row fails with CONFLICT
\* and removeTeamFromLeague for a pair that has none fails with NOT_FOUND, and
\* both leave league_team unchanged.
C8_JunctionUnique ==
    /\ [](\A l \in LeagueIds, t \in TeamIds : Cardinality(PairRows(l, t)) <= 1)
    /\ [][ /\ last'.op = "addTeamToLeague" =>
               \A c \in Callers, o \in Orgs, l \in LeagueIds, t \in TeamIds :
                 (/\ IsStaff(c, o) /\ LeagueInOrg(l, o) /\ PairRows(l, t) # {}
                  /\ AddTeamToLeague(c, o, l, t))
                 => (last'.res = "CONFLICT" /\ UNCHANGED leagueTeam)
           /\ last'.op = "removeTeamFromLeague" =>
               \A c \in Callers, o \in Orgs, l \in LeagueIds, t \in TeamIds :
                 (/\ IsStaff(c, o) /\ PairRows(l, t) = {}
                  /\ RemoveTeamFromLeague(c, o, l, t))
                 => (last'.res = "NOT_FOUND" /\ UNCHANGED leagueTeam)
         ]_vars

\* a second addTeamToLeague for a pair has been refused and the pair has its
\* one row
C8_Witness ==
    /\ last.op = "addTeamToLeague"
    /\ last.res = "CONFLICT"
    /\ \E l \in LeagueIds, t \in TeamIds : Cardinality(PairRows(l, t)) = 1

\* C9: for every league L of an organization O, the participants of L and the
\* teams available for (O, L) are disjoint and together are the teams of O.
C9_ParticipantsAndAvailable ==
    \A o \in Orgs, l \in LeagueIds :
        LeagueInOrg(l, o) =>
            /\ ParticipatingTeams(l) \cap TeamsAvailableForLeague(o, l) = {}
            /\ ParticipatingTeams(l) \cup TeamsAvailableForLeague(o, l) = OrgTeamIds(o)

\* a league of an organization with two teams, one taking part and one
\* available
C9_Witness ==
    \E o \in Orgs, l \in LeagueIds :
        /\ LeagueInOrg(l, o)
        /\ ParticipatingTeams(l) # {}
        /\ TeamsAvailableForLeague(o, l) # {}

AddsOf(k) == {r \in requests : r.save = k /\ r.kind = "add"}
RemovesOf(k) == {r \in requests : r.save = k /\ r.kind = "remove"}
\* every add request of save k has been fulfilled
AddsDone(reqs, svs, k) ==
    \A id \in svs[k].toAdd :
        \E q \in reqs : q.save = k /\ q.kind = "add" /\ q.id = id /\ q.st = "fulfilled"

\* C10: a remove request of a save exists only when every add request of that
\* save has been fulfilled; a save with a rejected add request has failed and
\* has no remove request; and the initial ids change only when a save ends
\* with all its add requests fulfilled, to the local ids that save was called
\* with.
C10_AddsBeforeRemoves ==
    /\ [](\A k \in SaveIds :
            /\ RemovesOf(k) # {} => AddsDone(requests, saves, k)
            /\ (\E q \in AddsOf(k) : q.st = "rejected")
               => (saves[k].pc = "failed" /\ RemovesOf(k) = {}))
    /\ [][ initialIds' # initialIds =>
             \E k \in SaveIds :
                /\ saves[k].pc # "saved"
                /\ saves'[k].pc = "saved"
                /\ AddsDone(requests', saves', k)
                /\ initialIds' = saves'[k].local ]_vars

\* one save has failed on a rejected add request, with something to remove;
\* another has sent its remove requests after its add requests were fulfilled
C10_Witness ==
    \E k1, k2 \in SaveIds :
        /\ saves[k1].pc = "failed"
        /\ saves[k1].toRemove # {}
        /\ \E q \in AddsOf(k1) : q.st = "rejected"
        /\ saves[k2].pc \in {"removing", "saved"}
        /\ saves[k2].toAdd # {}
        /\ RemovesOf(k2) # {}

\* C11: a save that was called when the server agreed with the screen's
\* initial ids and nothing was outstanding, that no later save overlaps and
\* whose requests all succeed, has made exactly one add request per id of
\* desired \ initial and one remove request per id of initial \ desired, the
\* two sets being disjoint; when it ends the server holds the desired ids and
\* the initial ids are the desired ids, so that hasChanges is false for the
\* desired ids.
C11_BatchReconciles ==
    [][ \A k \in SaveIds :
          (/\ saves[k].pc # "saved"
           /\ saves'[k].pc = "saved"
           /\ saves'[k].clean
           /\ nextSave' = k + 1)
          => LET sv == saves'[k]
                 mine == {q \in requests' : q.save = k}
             IN /\ sv.toAdd \cap sv.toRemove = {}
                /\ sv.toAdd = sv.local \ initialIds
                /\ sv.toRemove = initialIds \ sv.local
                /\ mine = {Request(k, "add", id, "fulfilled", "OK") : id \in sv.toAdd}
                          \cup {Request(k, "remove", id, "fulfilled", "OK") :
                                   id \in sv.toRemove}
                /\ ServerIds' = sv.local
                /\ initialIds' = sv.local
                /\ (localIds' = sv.local => ~HasChanges')
      ]_vars

\* a clean save with ids to add and ids to remove has ended, and the server
\* holds what the screen shows
C11_Witness ==
    \E k \in SaveIds :
        /\ saves[k].pc = "saved"
        /\ saves[k].clean
        /\ saves[k].toAdd # {}
        /\ saves[k].toRemove # {}
        /\ ServerIds = localIds
        /\ ~HasChanges

\* the characters of [a-z0-9] in a string, in order
AlnumOf(str) == SelectSeq(str, LAMBDA ch : ch \in Alnum)
Hyphens(str) == Cardinality({i \in 1..Len(str) : str[i] = "-"})
\* the runs of other characters that stand between two characters of [a-z0-9]
InnerRuns(str) ==
    Cardinality({i \in 1..(Len(str) - 1) :
                    /\ str[i] \notin Alnum
                    /\ str[i + 1] \in Alnum
                    /\ \E j \in 1..(i - 1) : str[j] \in Alnum})
\* b is name lowercased, with every run of characters outside [a-z0-9]
\* replaced by one hyphen and the hyphens at the two ends stripped
WellDerived(name, b) ==
    /\ AlnumOf(b) = AlnumOf(Lower(name))
    /\ \A i \in 1..Len(b) : b[i] \in Alnum \cup {"-"}
    /\ b # <<>> => (b[1] # "-" /\ b[Len(b)] # "-")
    /\ \A i \in 1..(Len(b) - 1) : ~(b[i] = "-" /\ b[i + 1] = "-")
    /\ Hyphens(b) = InnerRuns(Lower(name))
\* the base derived from a name
NameDerived(name, fallback) ==
    IF Slugify(name) # <<>> THEN Slugify(name) ELSE fallback
\* s is b when b is free, and otherwise b-k for the smallest k >= 1 with b-k free
Allocated(taken, b, s) ==
    IF b \notin taken THEN s = b
    ELSE \E k \in 1..(MaxFacilities + 1) :
            /\ s = Suffixed(b, k)
            /\ s \notin taken
            /\ \A j \in 1..(k - 1) : Suffixed(b, j) \in taken
\* no two rows of one organization have the same slug
SlugsUnique ==
    /\ \A f, g \in facility :
          (f.organizationId = g.organizationId /\ f.slug = g.slug) => f = g
    /\ \A x, y \in league :
          (x.organizationId = y.organizationId /\ x.slug = y.slug) => x = y

\* C12 as stated: the slug stored by createFacility and createLeague is
\* allocated from the base derived from the name, and no two rows of an
\* organization have the same slug.
C12_SlugFromName ==
    /\ [](SlugsUnique /\ \A name \in SlugNames \cup {p[1] : p \in SlugCalls} :
                            WellDerived(name, Slugify(name)))
    /\ [][ /\ (last'.op = "createFacility" /\ last'.res = "OK") =>
               \A c \in Callers, o \in Orgs, p \in SlugCalls :
                  CreateFacility(c, o, p[1], p[2]) =>
                     \E g \in facility' \ facility :
                        Allocated(OrgFacilitySlugs(o),
                                  NameDerived(p[1], FacilityFallback), g.slug)
           /\ (last'.op = "createLeague" /\ last'.res = "OK") =>
               \A c \in Callers, o \in Orgs, name \in SlugNames :
                  CreateLeague(c, o, name) =>
                     \E x \in league' \ league :
                        Allocated(OrgLeagueSlugs(o),
                                  NameDerived(name, LeagueFallback), x.slug)
         ]_vars

\* C12, amended: the base of createFacility is its slug argument, trimmed,
\* when that is not blank, and the base derived from the name otherwise; the
\* base of createLeague is derived from the name.  The stored slug is the
\* base when no row of the organization has it, and otherwise base-k for the
\* smallest k >= 1 that no row of the organization has; no two rows of an
\* organization have the same slug.
C12_SlugFromBase ==
    /\ [](SlugsUnique /\ \A name \in SlugNames \cup {p[1] : p \in SlugCalls} :
                            WellDerived(name, Slugify(name)))
    /\ [][ /\ (last'.op = "createFacility" /\ last'.res = "OK") =>
               \A c \in Callers, o \in Orgs, p \in SlugCalls :
                  CreateFacility(c, o, p[1], p[2]) =>
                     \E g \in facility' \ facility :
                        Allocated(OrgFacilitySlugs(o),
                                  IF Trim(p[2]) # <<>> THEN Trim(p[2])
                                  ELSE NameDerived(p[1], FacilityFallback),
                                  g.slug)
           /\ (last'.op = "createLeague" /\ last'.res = "OK") =>
               \A c \in Callers, o \in Orgs, name \in SlugNames :
                  CreateLeague(c, o, name) =>
                     \E x \in league' \ league :
                        Allocated(OrgLeagueSlugs(o),
                                  NameDerived(name, LeagueFallback), x.slug)
         ]_vars

\* an organization has facilities with the slugs b-a, b-a-1 and b-a-2, and a
\* league has been created
C12_Witness ==
    /\ league # {}
    /\ \E o \in Orgs :
          {<<"b", "-", "a">>, <<"b", "-", "a", "-", "1">>,
           <<"b", "-", "a", "-", "2">>} \subseteq OrgFacilitySlugs(o)

\* C13: every stored facility slug and league slug is non-empty and made of
\* characters of [a-z0-9-] only.
C13_SlugCharset ==
    /\ \A f \in facility :
          f.slug # <<>> /\ \A i \in 1..Len(f.slug) : f.slug[i] \in Alnum \cup {"-"}
    /\ \A x \in league :
          x.slug # <<>> /\ \A i \in 1..Len(x.slug) : x.slug[i] \in Alnum \cup {"-"}

\* the day indexes of a group, from its labels
DaysOf(g) ==
    [j \in 1..Len(g.dayLabels) |->
        CHOOSE d \in DayIndexes : DAY_LABELS[d] = g.dayLabels[j]]
\* the groups shown that have day d
GroupsWith(d) ==
    {i \in 1..Len(groups.list) :
        \E j \in 1..Len(groups.list[i].dayLabels) : DaysOf(groups.list[i])[j] = d}
\* two days have identical start and end strings, or are both closed
SameHours(h1, h2) ==
    \/ HasHours(h1) /\ HasHours(h2)
       /\ h1.startTime = h2.startTime /\ h1.endTime = h2.endTime
    \/ ~HasHours(h1) /\ ~HasHours(h2)

\* C14 as stated: the days of every group shown are consecutive days of the
\* week.
C14_GroupsContiguous ==
    groups.shown =>
        \A i \in 1..Len(groups.list) :
            LET ds == DaysOf(groups.list[i])
            IN \A j \in 1..(Len(ds) - 1) : ds[j + 1] = ds[j] + 1

\* C14, amended: two days are in the same group exactly when they have
\* identical start and end strings or are both closed, whether or not the
\* days between them have the same hours.
C14_GroupsByHours ==
    (groups.shown /\ schedule # NullSchedule) =>
        \A d1, d2 \in DayIndexes :
            (GroupsWith(d1) \cap GroupsWith(d2) # {})
                <=> SameHours(schedule[d1], schedule[d2])

\* a group is shown whose days are not consecutive
C14_Witness ==
    /\ groups.shown
    /\ \E i \in 1..Len(groups.list) :
          LET ds == DaysOf(groups.list[i])
          IN \E j \in 1..(Len(ds) - 1) : ds[j + 1] > ds[j] + 1

\* C15: for a schedule object every day of the week is in exactly one group,
\* the days of a group are in the order of the week and have the same start
\* and end strings or are all closed, and the groups are in the strictly
\* increasing order of their first days; for a null schedule there is no
\* group.
C15_GroupsPartitionWeek ==
    groups.shown =>
        IF schedule = NullSchedule THEN groups.list = <<>>
        ELSE /\ \A d \in DayIndexes : Cardinality(GroupsWith(d)) = 1
             /\ \A i \in 1..Len(groups.list) :
                   LET ds == DaysOf(groups.list[i])
                   IN /\ Len(ds) >= 1
                      /\ \A j \in 1..(Len(ds) - 1) : ds[j] < ds[j + 1]
                      /\ \A j, k \in 1..Len(ds) :
                            SameHours(schedule[ds[j]], schedule[ds[k]])
             /\ \A i \in 1..(Len(groups.list) - 1) :
                   DaysOf(groups.list[i])[1] < DaysOf(groups.list[i + 1])[1]

\* three groups are shown for a schedule whose monday is closed
C15_Witness ==
    /\ groups.shown
    /\ schedule # NullSchedule
    /\ Len(groups.list) = 3
    /\ groups.list[1].timeRange = <<"Closed">>

\* ^([01]?[0-9]|2[0-3]):[0-5][0-9]$
ValidTime(t) ==
    LET parts == SplitColon(t, <<>>)
    IN /\ Len(parts) = 2
       /\ Len(parts[1]) \in {1, 2}
       /\ Len(parts[2]) = 2
       /\ \A i \in 1..Len(t) : t[i] = ":" \/ IsDigit(t[i])
       /\ ToNumber(parts[1]) <= 23
       /\ ToNumber(parts[2]) <= 59
\* a schedule object whose days are absent, null or a pair of valid times
Canonical(s) ==
    /\ s # NullSchedule
    /\ \A d \in DayIndexes :
          \/ s[d].kind \in {"absent", "null"}
          \/ HasHours(s[d]) /\ ValidTime(s[d].startTime) /\ ValidTime(s[d].endTime)
IsBlank(str) == \A i \in 1..Len(str) : str[i] = " "

\* C16: the payload made from the form of a canonical schedule has the groups
\* of that schedule; the form has the seven days; and a day of a payload is
\* closed exactly when the start or the end of its row is blank, and has the
\* trimmed start and end of its row otherwise.
C16_RoundTrip ==
    /\ [](DOMAIN scheduleForm = DayIndexes)
    /\ [][ payload' # payload =>
             /\ (Canonical(schedule) /\ scheduleForm = formStateFromSchedule(schedule))
                   => getFacilityScheduleGroups(payload') =
                      getFacilityScheduleGroups(schedule)
             /\ \A d \in DayIndexes :
                   IF IsBlank(scheduleForm[d].startTime) \/ IsBlank(scheduleForm[d].endTime)
                   THEN payload'[d] = NullDay
                   ELSE /\ HasHours(payload'[d])
                        /\ ~IsBlank(payload'[d].startTime)
                        /\ payload'[d].startTime = Trim(scheduleForm[d].startTime)
                        /\ payload'[d].endTime = Trim(scheduleForm[d].endTime)
         ]_vars

\* the payload of the form of a canonical schedule with an open day, an
\* absent day and a null day has been made
C16_Witness ==
    /\ Canonical(schedule)
    /\ \E d \in DayIndexes : HasHours(schedule[d])
    /\ \E d \in DayIndexes : schedule[d].kind = "absent"
    /\ \E d \in DayIndexes : schedule[d].kind = "null"
    /\ scheduleForm = formStateFromSchedule(schedule)
    /\ payload # NullSchedule
    /\ payload = scheduleFromFormState(scheduleForm)

\* C17: a createTeam by a staff member for an admin user who already has a
\* team membership returns an error, leaves the new team row in place with no
\* team_member row, leaves team_member unchanged, and leaves the admin user
\* on the roster of the organization.
C17_CreateTeamNotAtomic ==
    [][ last'.op = "createTeam" =>
          \A c \in Callers, o \in Orgs, a \in Users :
             (/\ IsStaff(c, o)
              /\ AlreadyOnTeam(a)
              /\ CreateTeam(c, o, a))
             => /\ last'.res \notin {"OK", "FORBIDDEN"}
                /\ \E x \in team' \ team :
                      /\ x.organizationId = o
                      /\ team' = team \cup {x}
                      /\ MembersOf(teamMember', x.id) = {}
                /\ teamMember' = teamMember
                /\ \E r \in organizationPlayer' :
                      r.organizationId = o /\ r.userId = a
                /\ organizationPlayer \subseteq organizationPlayer'
      ]_vars

\* a createTeam has failed on the insert of the admin's membership, and its
\* team is there without a member
C17_Witness ==
    /\ last.op = "createTeam"
    /\ last.res = "STORE_ERROR"
    /\ last.at = "insert team_member"
    /\ \E x \in team : MembersOf(teamMember, x.id) = {}

\* C18: a removePlayer by a staff member of org for a roster entry of org
\* deletes that entry and the team_member rows of its user on teams of org,
\* and nothing else; for an entry that is not one of org it fails with
\* NOT_FOUND and changes no table.
C18_RemovePlayerFrame ==
    [][ last'.op = "removePlayer" =>
          \A c \in Callers, o \in Orgs, pid \in Orgs \X Users :
             (IsStaff(c, o) /\ RemovePlayer(c, o, pid))
             => LET entry == {p \in organizationPlayer :
                                /\ p.organizationId = pid[1]
                                /\ p.userId = pid[2]
                                /\ p.organizationId = o}
                    gone == {r \in teamMember :
                                /\ r.userId = pid[2]
                                /\ \E x \in team :
                                      x.id = r.teamId /\ x.organizationId = o}
                IN IF entry = {}
                   THEN last'.res = "NOT_FOUND" /\ UNCHANGED tables
                   ELSE /\ last'.res = "OK"
                        /\ organizationPlayer' = organizationPlayer \ entry
                        /\ teamMember' = teamMember \ gone
                        /\ UNCHANGED <<member, team, league, leagueTeam>>
      ]_vars

\* a removePlayer has emptied the roster of an organization that has a team,
\* and a membership on a team of the other organization is still there
C18_Witness ==
    /\ last.op = "removePlayer"
    /\ last.res = "OK"
    /\ \E x \in team :
          /\ ~\E p \in organizationPlayer : p.organizationId = x.organizationId
          /\ \E r \in teamMember, y \in team :
                y.id = r.teamId /\ y.organizationId # x.organizationId

\* C19: listPlayers without filters has exactly one row per roster entry of
\* the organization and no other row; the teamId of the row is the team of
\* the user's membership when that team is one of the organization, and is
\* absent when the user has no membership or one on a team of another
\* organization.
C19_FreeAgents ==
    \A o \in Orgs :
        /\ \A r \in ListPlayersRows(o) :
              \E p \in organizationPlayer :
                 p.organizationId = o /\ p.userId = r.userId /\ p.status = r.status
        /\ \A p \in organizationPlayer :
              p.organizationId = o =>
                 LET rows == {r \in ListPlayersRows(o) : r.userId = p.userId}
                     own == {m \in teamMember :
                               /\ m.userId = p.userId
                               /\ \E x \in team :
                                     x.id = m.teamId /\ x.organizationId = o}
                 IN /\ Cardinality(rows) = 1
                    /\ \A r \in rows :
                          IF own = {} THEN r.teamId = NoTeam
                          ELSE \E m \in own : r.teamId = m.teamId

\* listPlayers has answered while the organizations have a roster entry with
\* a team of the organization, one with no membership, and one whose user's
\* only membership is on a team of the other organization
C19_Witness ==
    /\ last.op = "listPlayers"
    /\ last.res = "OK"
    /\ \E o \in Orgs : \E r \in ListPlayersRows(o) : r.teamId # NoTeam
    /\ \E o \in Orgs : \E r \in ListPlayersRows(o) : r.member = NoTeam
    /\ \E o \in Orgs : \E r \in ListPlayersRows(o) :
          r.member # NoTeam /\ r.teamId = NoTeam

\* C20: when the insert of a call that passed its pre-check meets a row made
\* in the meantime (a membership of the same user, a row of the same league
\* and team), the call returns CONFLICT and the tables are unchanged.
C20_RaceGivesConflict ==
    [][ \A r \in inflight :
          (/\ inflight' = inflight \ {r}
           /\ \/ /\ r.op \in {"addPlayerToTeam", "addPlayer"}
                 /\ \E m \in teamMember : m.userId = r.user
              \/ /\ r.op = "addTeamToLeague"
                 /\ PairRows(r.league, r.team) # {})
          => /\ last'.res = "CONFLICT"
             /\ teamMember' = teamMember
             /\ leagueTeam' = leagueTeam
      ]_vars

\* C21: when the insert of a createFacility or createLeague call that has
\* probed meets a row made in the meantime, the call stores its row under the
\* next suffix or returns CONFLICT; no two rows of an organization share a slug.
C21_SlugRaceRetried ==
    [][ \A r \in inflight :
          (/\ inflight' = inflight \ {r}
           /\ \/ r.op = "createFacility" /\ FacilityInsertFails(r.o, r.args[2])
              \/ r.op = "createLeague" /\ LeagueInsertFails(r.o, r.args[2]))
          => /\ \/ last'.res = "CONFLICT"
                \/ last'.res = "OK" /\ (facility' # facility \/ league' # league)
             /\ SlugsUnique'
      ]_vars

\* C22 as stated: removeStaff on the caller's own row fails with FORBIDDEN and
\* deletes nothing.
C22_SelfRemovalForbidden ==
    [][ (last'.op = "removeStaff") =>
          \A c \in Callers, o \in Orgs :
             (IsStaff(c, o) /\ RemoveStaff(c, o, <<c, o>>))
             => (last'.res = "FORBIDDEN" /\ member' = member)
      ]_vars

\* C22, amended: removeStaff on the caller's own row fails with BAD_REQUEST
\* and deletes nothing.
C22_SelfRemovalBadRequest ==
    [][ (last'.op = "removeStaff") =>
          \A c \in Callers, o \in Orgs :
             (IsStaff(c, o) /\ RemoveStaff(c, o, <<c, o>>))
             => (last'.res = "BAD_REQUEST" /\ storeVars' = storeVars)
      ]_vars

\* a refused self-removal in an organization with two staff members
C22_Witness ==
    /\ last.op = "removeStaff" /\ last.at = "self"
    /\ Cardinality({m \in member : m.organizationId = "o1"}) = 2

\* C30: a removeStaff call, whole or interleaved with others, never takes the
\* last StaffMember row of an organization that has one.
C30_StaffNeverEmpty ==
    [][ (last'.op = "removeStaff") =>
          \A o \in Orgs :
             (\E m \in member : m.organizationId = o)
             => (\E m \in member' : m.organizationId = o)
      ]_vars

\* C23: every organization has at most one league; createLeague for an
\* organization that has a league creates no row, leaves the league as it is
\* and returns an error.
C23_OneLeaguePerOrg ==
    [][ /\ \A x, y \in league' : x.organizationId = y.organizationId => x = y
        /\ (last'.op = "createLeague") =>
              \A c \in Callers, o \in Orgs, name \in SlugNames :
                 ((\E x \in league : x.organizationId = o) /\ CreateLeague(c, o, name))
                 => (league' = league /\ last'.res # "OK")
      ]_vars

\* a createLeague of a staff member refused by the store while the
\* organization has its league
C23_Witness ==
    /\ last.op = "createLeague" /\ last.res = "STORE_ERROR"
    /\ Cardinality({x \in league : x.organizationId = "o1"}) = 1

\* the same team_member row (one user on one team) in two states
SameRow(q, r) == q.teamId = r.teamId /\ q.userId = r.userId

\* C24: a membership row appears with role admin only in createTeam and with
\* role member only in addPlayer and addPlayerToTeam; the role of a row that
\* stays changes only from member to admin, in a removePlayerFromTeam call
\* that removes an admin of that team; updatePlayer changes the status of
\* roster entries and nothing else.
C24_MembershipMachine ==
    [][ /\ \A r \in teamMember' :
              (~\E q \in teamMember : SameRow(q, r))
              => \/ r.role = "admin" /\ last'.op = "createTeam"
                 \/ r.role = "member" /\ last'.op \in {"addPlayer", "addPlayerToTeam"}
        /\ \A q \in teamMember, r \in teamMember' :
              (SameRow(q, r) /\ r.role # q.role)
              => /\ q.role = "member" /\ r.role = "admin"
                 /\ last'.op = "removePlayerFromTeam"
                 /\ \E a \in teamMember :
                       /\ a.teamId = q.teamId /\ a.role = "admin"
                       /\ ~\E b \in teamMember' : SameRow(a, b)
        /\ (last'.op = "updatePlayer")
              => /\ teamMember' = teamMember
                 /\ {<<p.organizationId, p.userId>> : p \in organizationPlayer'}
                      = {<<p.organizationId, p.userId>> : p \in organizationPlayer}
      ]_vars

\* a succession has happened: the last call removed an admin and a member of
\* that team, added as member, is now its admin
C24_Witness ==
    /\ last.op = "removePlayerFromTeam" /\ last.at = "promoted"
    /\ \E r \in teamMember : r.role = "admin"
    /\ \E r \in teamMember : r.role = "member"

\* C25: once the data of the open screen has arrived and the effect has run
\* (no edit made), the initial and local ids are the server's ids, whether
\* the data was there at the first effect run or came after it.
C25_SyncOnLoad ==
    (page.kind # "closed" /\ mount.loaded /\ ~mount.todo)
    => (initialIds = ServerIds /\ localIds = ServerIds)

\* handleSave k has run to its end and nothing of it is on its way
Ended(k) == saves[k].pc \in {"saved", "failed"} /\ Quiet

C27_ListedIsAddable ==
    [][ (last'.op = "addPlayerToTeam") =>
          \A c \in Callers, o \in Orgs, t \in TeamIds :
             (IsStaff(c, o) /\ TeamInOrg(t, o))
             => \A u \in PlayersAvailableForTeam(o, t) :
                   AddPlayerToTeam(c, o, t, u) => last'.res = "OK"
      ]_vars

C29_MembershipImpliesRoster ==
    \A m \in teamMember, x \in team :
       x.id = m.teamId => OnRoster(x.organizationId, m.userId)

====
